---- MODULE Spec2Model ----
(***************************************************************************)
(* Relation discovery and scoring engine of the prediction-market backend. *)
(*                                                                         *)
(* Numbers that are floats in the program (similarity, correlation,        *)
(* pressure, price changes, volumes) are fixed-point integers here, in     *)
(* hundredths: Unit stands for 1.0.                                        *)
(***************************************************************************)
EXTENDS Integers, Sequences, FiniteSets, TLC

\* ------------------------------------------------------------------ bounds
NMarkets == 3
MaxErr == 1
MaxBatchSize == 2
MaxFailures == 1

Markets == 1..NMarkets
RunIds == {1, 2}
Unit == 10 * 10
\* an absent optional value is the empty sequence, a present one <<value>>
None == <<>>
NoEmb == <<>>

\* The embedding vectors the model draws from (two dimensions).
Zero == <<0, 0>>
E1 == <<1, 0>>
E2 == <<1, 1>>
E3 == <<0, 1>>
Vectors == {Zero, E1, E2, E3}

\* ------------------------------------------------------- program constants
SimilarityThreshold == 70
CorrelationThreshold == 0
LimitPerMarket == 100
BatchSize == 500

VARIABLES
    markets,      \* markets table: id -> market row
    emb,          \* vector_embeddings table: id -> vector, or NoEmb
    lostPage,     \* ids whose embedding page could not be loaded by a run
    qerr,         \* rounding loss of the query-side normalisation, per market
    simFault,     \* markets whose similarity calculation raises
    relFault,     \* market -> candidate position at which its relation
                  \* calculation raises (0: never)
    iterOrder,    \* iteration order of embedding_market_ids_set
    args,         \* arguments of create_all_relations
    store,        \* market_relations table: a set of rows
    run,          \* the discovery runs: id -> local state
    last,         \* the last call of the relation service and what it returned
    vs,           \* the vector service: its rate limiter, the clock and the
                  \* batch_create_embeddings call in progress
    ai            \* the relation query with AI analysis in progress: its
                  \* arguments and its analysis tasks

inputVars == <<markets, emb, lostPage, qerr, simFault, relFault, iterOrder, args, vs, ai>>
vars == <<markets, emb, lostPage, qerr, simFault, relFault, iterOrder, args, store, run, last, vs, ai>>

\* VectorService.__init__: a rate limiter that has started no burst; the
\* model adds the clock, the burst started before the latest one, the
\* locals of the batch_create_embeddings call in progress, and for that
\* call the markets of the chunks whose provider call failed (lost)
NewVectorService ==
    [burst_start_time |-> None, previous_burst_start |-> None, now |-> 0,
     calls |-> 0, pc |-> "idle", market_ids |-> <<>>, batch_size |-> 0, i |-> 0,
     created |-> 0, failed |-> 0, lost |-> {}]

\* no relation query with AI analysis has been made
NoQuery ==
    [pc |-> "idle", op |-> "none", market_id |-> 0, limit |-> 0, min_volume |-> None,
     ai_model |-> "none", tasks |-> <<>>, calls |-> 0]

\* ----------------------------------------------------------------- helpers
Min(a, b) == IF a <= b THEN a ELSE b
Max(a, b) == IF a >= b THEN a ELSE b
AbsVal(x) == IF x < 0 THEN -x ELSE x

\* floor of the square root
ISqrt(n) == CHOOSE r \in 0..n : r * r <= n /\ (r + 1) * (r + 1) > n

Range(s) == {s[i] : i \in DOMAIN s}
Perms(S) == {p \in [1..Cardinality(S) -> S] : \A i, j \in DOMAIN p : i # j => p[i] # p[j]}

RECURSIVE Flatten(_)
Flatten(ss) == IF ss = <<>> THEN <<>> ELSE Head(ss) \o Flatten(Tail(ss))

\* ------------------------------------------------ scorer (relation_service)
\* average of the absolute values of the price changes that are present
CalculateVolatilityFromPriceChanges(market) ==
    LET present == SelectSeq(<<market.one_day_price_change,
                               market.one_week_price_change,
                               market.one_month_price_change>>,
                             LAMBDA c : c # None)
        total[i \in 0..Len(present)] ==
            IF i = 0 THEN 0 ELSE total[i - 1] + AbsVal(present[i][1])
    IN  IF present = <<>> THEN 0 ELSE total[Len(present)] \div Len(present)

CalculateCorrelation(market1, market2) == Unit

\* np.sqrt of a fixed-point number; from 1.0 on the caller's min(1.0, .)
\* caps the result, so the roots are tabulated up to 1.0
Roots == [d \in 0..Unit |-> ISqrt(d * Unit)]
Sqrt(d) == IF d \in DOMAIN Roots THEN Roots[d] ELSE ISqrt(d * Unit)

\* mutant: the volatility difference keeps its sign
CalculatePressureSigned(similarity, correlation, market1, market2) ==
    LET volatility1 == CalculateVolatilityFromPriceChanges(market1)
        volatility2 == CalculateVolatilityFromPriceChanges(market2)
        volatility_diff == volatility1 - volatility2
        pressure_factor ==
            IF volatility_diff <= 0 THEN Unit \div 10
            ELSE Max(Unit \div 10, Min(Unit, Sqrt(volatility_diff)))
        pressure == (similarity * correlation * pressure_factor) \div (Unit * Unit)
    IN  Max(0, Min(Unit, pressure))

\* mutant: neither the factor nor the result is capped
CalculatePressureUncapped(similarity, correlation, market1, market2) ==
    LET volatility1 == CalculateVolatilityFromPriceChanges(market1)
        volatility2 == CalculateVolatilityFromPriceChanges(market2)
        volatility_diff == AbsVal(volatility1 - volatility2)
        pressure_factor ==
            IF volatility_diff <= 0 THEN Unit \div 10
            ELSE Max(Unit \div 10, Sqrt(volatility_diff))
    IN  (similarity * correlation * pressure_factor) \div (Unit * Unit)

\* mutant: markets that move alike get the full factor
CalculatePressureAlike(similarity, correlation, market1, market2) ==
    LET volatility1 == CalculateVolatilityFromPriceChanges(market1)
        volatility2 == CalculateVolatilityFromPriceChanges(market2)
        volatility_diff == AbsVal(volatility1 - volatility2)
        pressure_factor ==
            IF volatility_diff <= 0 THEN Unit
            ELSE Max(Unit \div 10, Min(Unit, Sqrt(volatility_diff)))
        pressure == (similarity * correlation * pressure_factor) \div (Unit * Unit)
    IN  Max(0, Min(Unit, pressure))

CalculatePressure(similarity, correlation, market1, market2) ==
    LET volatility1 == CalculateVolatilityFromPriceChanges(market1)
        volatility2 == CalculateVolatilityFromPriceChanges(market2)
        volatility_diff == AbsVal(volatility1 - volatility2)
        pressure_factor ==
            IF volatility_diff <= 0 THEN Unit \div 10
            ELSE Max(Unit \div 10, Min(Unit, Sqrt(volatility_diff)))
        pressure == (similarity * correlation * pressure_factor) \div (Unit * Unit)
    IN  Max(0, Min(Unit, pressure))

\* ------------------------------------------------------ the relation store
Key(rel) == <<rel.market_id_1, rel.market_id_2>>
Keys(rows) == {Key(rel) : rel \in rows}
Canon(a, b) == <<Min(a, b), Max(a, b)>>
Relation(a, b, similarity, correlation, pressure) ==
    [market_id_1 |-> a, market_id_2 |-> b, similarity |-> similarity,
     correlation |-> correlation, pressure |-> pressure]

\* a stored row: the relation and the id the table gives it
Row(id, rel) ==
    [id |-> id, market_id_1 |-> rel.market_id_1, market_id_2 |-> rel.market_id_2,
     similarity |-> rel.similarity, correlation |-> rel.correlation,
     pressure |-> rel.pressure]
Data(row) == Relation(row.market_id_1, row.market_id_2, row.similarity,
                      row.correlation, row.pressure)
Relations(rows) == {Data(row) : row \in rows}
\* the table's ids only tell rows apart; the model numbers the rows of a key
NextId(rows, rel) == 1 + Cardinality({row \in rows : Key(row) = Key(rel)})

\* one record of an upsert: the row of its key is updated in place, or
\* a new row is inserted
UpsertOne(rows, rel) ==
    IF Key(rel) \in Keys(rows)
    THEN {IF Key(row) = Key(rel) THEN Row(row.id, rel) ELSE row : row \in rows}
    ELSE rows \cup {Row(NextId(rows, rel), rel)}

\* upsert(batch, on_conflict='market_id_1,market_id_2')
RECURSIVE Upsert(_, _)
Upsert(rows, batch) ==
    IF batch = <<>> THEN rows
    ELSE Upsert(UpsertOne(rows, Head(batch)), Tail(batch))

\* ------------------------------------------- full-corpus run: similarities
Dot(a, b) == a[1] * b[1] + a[2] * b[2]
\* np.linalg.norm, tabulated over the vectors of the model
Norms == [v \in Vectors |-> ISqrt(Dot(v, v) * Unit * Unit)]
Norm(a) == Norms[a]

EmbeddingMarketIds == {m \in Markets : emb[m] # NoEmb}
EmbeddingCache == EmbeddingMarketIds \ lostPage

\* one entry of np.dot(normalized_embeddings, normalized_query); a zero row
\* is divided by 1 and stays zero
RowSimilarity(query, row, err) ==
    LET norm == IF Norm(row) = 0 THEN Unit ELSE Norm(row)
    IN  (Dot(row, query) * Unit * Unit * Unit) \div (norm * Norm(query)) - err

\* np.argsort(-similarities): descending, ties in row order
RECURSIVE SortDescending(_, _)
SortDescending(S, score) ==
    IF S = {} THEN <<>>
    ELSE LET best == CHOOSE x \in S : \A y \in S :
                         score[x] > score[y] \/ (score[x] = score[y] /\ x <= y)
         IN  <<<<best, score[best]>>>> \o SortDescending(S \ {best}, score)

Truncate(s, n) == SubSeq(s, 1, Min(n, Len(s)))

\* the similarity_cache entry of one market
SimilarMarkets(m) ==
    IF m \notin EmbeddingCache \/ m \in simFault THEN <<>>
    ELSE IF Norm(emb[m]) = 0 THEN <<>>
    ELSE LET similarities == [x \in EmbeddingCache |->
                                 RowSimilarity(emb[m], emb[x], qerr[m])]
             similar == {x \in EmbeddingCache :
                            similarities[x] >= args.similarity_threshold /\ x # m}
         IN  Truncate(SortDescending(similar, similarities), args.limit_per_market)

\* ---------------------------------------------- full-corpus run: relations
\* mutant: the cache is filled in one direction only
RelationCacheOneWay(rows) ==
    [m \in Markets |-> {rel.market_id_2 : rel \in {x \in rows : x.market_id_1 = m}}]

\* relation_cache: market -> the markets it is related to, both directions
RelationCache(rows) ==
    [m \in Markets |-> {rel.market_id_2 : rel \in {x \in rows : x.market_id_1 = m}}
                  \cup {rel.market_id_1 : rel \in {x \in rows : x.market_id_2 = m}}]

MarketsToProcess(relation_cache) ==
    LET with_embeddings == SelectSeq(iterOrder, LAMBDA m : m \in EmbeddingMarketIds)
    IN  IF args.skip_existing
        THEN SelectSeq(with_embeddings, LAMBDA m : relation_cache[m] = {})
        ELSE with_embeddings

StagedRelation(m, cand) ==
    LET correlation == CalculateCorrelation(markets[m], markets[cand[1]])
    IN  Relation(Min(m, cand[1]), Max(m, cand[1]), cand[2], correlation,
                 CalculatePressure(cand[2], correlation, markets[m], markets[cand[1]]))

\* one iteration of the loop over similar_markets
StageCandidate(m, cand, existing_market_ids, relations) ==
    IF cand[1] \in existing_market_ids THEN relations
    ELSE IF cand[1] = m THEN relations
    ELSE IF cand[1] \notin DOMAIN markets THEN relations
    ELSE IF CalculateCorrelation(markets[m], markets[cand[1]])
               < args.correlation_threshold THEN relations
    ELSE Append(relations, StagedRelation(m, cand))

RECURSIVE StageFrom(_, _, _, _, _)
StageFrom(m, similar_markets, i, existing_market_ids, relations) ==
    IF i > Len(similar_markets) \/ i = relFault[m] THEN relations
    ELSE StageFrom(m, similar_markets, i + 1, existing_market_ids,
                   StageCandidate(m, similar_markets[i], existing_market_ids, relations))

\* the records one market stages; an exception at candidate relFault[m]
\* leaves the records staged before it and ends this market
StageMarket(m, similar_markets, existing_market_ids) ==
    StageFrom(m, similar_markets, 1, existing_market_ids, <<>>)

\* mutant: an exception in one market ends the whole loop
StageAllAborting(to_process, similarity_cache, relation_cache) ==
    LET faulty == {i \in 1..Len(to_process) : relFault[to_process[i]] > 0}
        stop == IF faulty = {} THEN Len(to_process)
                ELSE CHOOSE i \in faulty : \A j \in faulty : i <= j
    IN  Flatten([i \in 1..stop |->
                    StageMarket(to_process[i], similarity_cache[to_process[i]],
                                relation_cache[to_process[i]])])

\* the loop over markets_to_process
StageAll(to_process, similarity_cache, relation_cache) ==
    Flatten([i \in 1..Len(to_process) |->
                StageMarket(to_process[i], similarity_cache[to_process[i]],
                            relation_cache[to_process[i]])])

\* mutant: a later record never replaces the first one
KeepFirstRelation(unique, rel) ==
    IF \E j \in 1..Len(unique) : Key(unique[j]) = Key(rel) THEN unique
    ELSE Append(unique, rel)

\* one iteration of the deduplication loop: the first record of a key is
\* kept unless a later one has a higher similarity
KeepRelation(unique, rel) ==
    LET at == {j \in 1..Len(unique) : Key(unique[j]) = Key(rel)}
    IN  IF at = {} THEN Append(unique, rel)
        ELSE IF rel.similarity > unique[CHOOSE j \in at : TRUE].similarity
        THEN [unique EXCEPT ![CHOOSE j \in at : TRUE] = rel]
        ELSE unique

RECURSIVE DeduplicateFrom(_, _)
DeduplicateFrom(unique, relations) ==
    IF relations = <<>> THEN unique
    ELSE DeduplicateFrom(KeepRelation(unique, Head(relations)), Tail(relations))

\* unique_relations, in insertion order
Deduplicate(relations) == DeduplicateFrom(<<>>, relations)

\* ------------------------------------------------- full-corpus run: steps
IdleRun == [pc |-> "idle", existing_relations |-> {}, after |-> {},
            relation_cache |-> [m \in Markets |-> {}],
            markets_to_process |-> <<>>, similarity_cache |-> [m \in Markets |-> <<>>],
            relations_to_create |-> <<>>, unique_relations |-> <<>>,
            written |-> 0, total_created |-> 0, total_failed |-> 0,
            failed_batches |-> 0, ret |-> "None"]
OffRun == [IdleRun EXCEPT !.pc = "off"]

\* PHASE 1: read the markets, the embedding ids and the existing relations
LoadCache(r) ==
    /\ run[r].pc = "idle"
    /\ LET relation_cache == RelationCache(store)
           to_process == MarketsToProcess(relation_cache)
           finished == {q \in RunIds : run[q].pc = "done"}
       IN  run' = [run EXCEPT ![r] =
                IF EmbeddingMarketIds = {}
                THEN [@ EXCEPT !.pc = "done", !.ret = "False", !.after = finished]
                ELSE IF to_process = <<>>
                THEN [@ EXCEPT !.pc = "done", !.ret = "True", !.after = finished,
                               !.existing_relations = Relations(store),
                               !.relation_cache = relation_cache]
                ELSE [@ EXCEPT !.pc = "similarities", !.after = finished,
                               !.existing_relations = Relations(store),
                               !.relation_cache = relation_cache,
                               !.markets_to_process = to_process]]
    /\ UNCHANGED <<inputVars, store, last>>

\* PHASE 2: load the embeddings and fill similarity_cache
CalculateSimilarities(r) ==
    /\ run[r].pc = "similarities"
    /\ run' = [run EXCEPT ![r] =
            IF EmbeddingCache = {}
            THEN [@ EXCEPT !.pc = "done", !.ret = "False"]
            ELSE [@ EXCEPT !.pc = "relations",
                           !.similarity_cache =
                               [m \in Markets |->
                                   IF m \in Range(run[r].markets_to_process)
                                   THEN SimilarMarkets(m) ELSE <<>>]]]
    /\ UNCHANGED <<inputVars, store, last>>

\* PHASE 3: stage the relations of every market to process
CalculateRelations(r) ==
    /\ run[r].pc = "relations"
    /\ run' = [run EXCEPT ![r].pc = "dedupe",
                          ![r].relations_to_create =
                              StageAll(run[r].markets_to_process,
                                       run[r].similarity_cache,
                                       run[r].relation_cache)]
    /\ UNCHANGED <<inputVars, store, last>>

DeduplicateRelations(r) ==
    /\ run[r].pc = "dedupe"
    /\ LET unique == Deduplicate(run[r].relations_to_create)
       IN  run' = [run EXCEPT ![r] =
                IF unique = <<>>
                THEN [@ EXCEPT !.pc = "done", !.ret = "True"]
                ELSE [@ EXCEPT !.pc = "commit", !.unique_relations = unique]]
    /\ UNCHANGED <<inputVars, store, last>>

\* mutant: a failed batch counts as one failure
FailedCountOne(batch) == 1

\* total_failed += len(batch)
FailedCount(batch) == Len(batch)

\* batch writes that have raised so far, over all runs (capped by MaxFailures)
FailedBatches ==
    LET total[r \in 0..Cardinality(RunIds)] ==
            IF r = 0 THEN 0 ELSE total[r - 1] + run[r].failed_batches
    IN  total[Cardinality(RunIds)]

\* PHASE 4: one iteration of the batch-write loop; the upsert may raise
CommitBatch(r) ==
    /\ run[r].pc = "commit"
    /\ \E ok \in BOOLEAN :
        LET unique == run[r].unique_relations
            i == run[r].written
            batch == SubSeq(unique, i + 1, Min(i + args.batch_size, Len(unique)))
            after == i + args.batch_size
        IN  /\ ~ok => FailedBatches < MaxFailures
            /\ store' = IF ok THEN Upsert(store, batch) ELSE store
            /\ run' = [run EXCEPT
                    ![r].written = after,
                    ![r].total_created = IF ok THEN @ + Len(batch) ELSE @,
                    ![r].total_failed = IF ok THEN @ ELSE @ + FailedCount(batch),
                    ![r].failed_batches = IF ok THEN @ ELSE @ + 1,
                    ![r].pc = IF after >= Len(unique) THEN "done" ELSE "commit",
                    ![r].ret = IF after >= Len(unique) THEN "True" ELSE @]
    /\ UNCHANGED <<inputVars, last>>

Next == \E r \in RunIds :
    \/ LoadCache(r)
    \/ CalculateSimilarities(r)
    \/ CalculateRelations(r)
    \/ DeduplicateRelations(r)
    \/ CommitBatch(r)

\* ------------------------------------------------ relation service: writes
NoCall == [op |-> "none", args |-> <<>>, result |-> <<>>, failed |-> 0]
Call(op, a, result, failed) ==
    [op |-> op, args |-> a, result |-> result, failed |-> failed]

\* mutant: the ids are stored in the order they are given
CreateRelationDataAsGiven(market_id_1, market_id_2, similarity, correlation, pressure) ==
    Relation(market_id_1, market_id_2, similarity, correlation, pressure)

\* data of create_relation
CreateRelationData(market_id_1, market_id_2, similarity, correlation, pressure) ==
    Relation(Min(market_id_1, market_id_2), Max(market_id_1, market_id_2),
             similarity, correlation, pressure)

\* create_relation; ok: the upsert does not raise
CreateRelation(rows, market_id_1, market_id_2, similarity, correlation, pressure, ok) ==
    IF ok
    THEN UpsertOne(rows, CreateRelationData(market_id_1, market_id_2,
                                            similarity, correlation, pressure))
    ELSE rows

MarketRelationCreate(market_id_1, market_id_2, similarity, correlation, pressure) ==
    [market_id_1 |-> market_id_1, market_id_2 |-> market_id_2,
     similarity |-> similarity, correlation |-> correlation, pressure |-> pressure]

\* x or 0.0
OrZero(x) == IF x = None THEN 0 ELSE x[1]

\* create_relations_batch; fails: the positions whose create_relation raises
RECURSIVE CreateRelationsBatchFrom(_, _, _, _)
CreateRelationsBatchFrom(rows, relations, i, fails) ==
    IF i > Len(relations) THEN rows
    ELSE CreateRelationsBatchFrom(
             CreateRelation(rows, relations[i].market_id_1, relations[i].market_id_2,
                            relations[i].similarity, OrZero(relations[i].correlation),
                            OrZero(relations[i].pressure), i \notin fails),
             relations, i + 1, fails)

\* mutant: the first create_relation that raises ends the batch
CreateRelationsBatchAborting(rows, relations, fails) ==
    LET failing == fails \cap DOMAIN relations
        first == IF failing = {} THEN Len(relations) + 1
                 ELSE CHOOSE i \in failing : \A j \in failing : i <= j
    IN  [rows |-> CreateRelationsBatchFrom(rows, SubSeq(relations, 1, first - 1), 1, {}),
         created |-> Min(first - 1, Len(relations)),
         failed |-> IF failing = {} THEN 0 ELSE 1,
         total |-> Len(relations)]

CreateRelationsBatch(rows, relations, fails) ==
    [rows |-> CreateRelationsBatchFrom(rows, relations, 1, fails),
     created |-> Len(relations) - Cardinality(fails \cap DOMAIN relations),
     failed |-> Cardinality(fails \cap DOMAIN relations),
     total |-> Len(relations)]

\* delete_relation
DeleteRelation(rows, market_id_1, market_id_2) ==
    LET min_id == Min(market_id_1, market_id_2)
        max_id == Max(market_id_1, market_id_2)
    IN  {row \in rows : ~(row.market_id_1 = min_id /\ row.market_id_2 = max_id)}

\* ------------------------------------------------- relation service: reads
\* the rows the query of get_related_markets may return: the relations of
\* market_id from min_similarity on, by descending similarity with ties in
\* any order, 3 * limit of them at most
Responses(rows, market_id, min_similarity, limit) ==
    LET matching == {row \in rows :
                        /\ row.market_id_1 = market_id \/ row.market_id_2 = market_id
                        /\ row.similarity >= min_similarity}
    IN  {Truncate(p, limit * 3) :
            p \in {q \in Perms(matching) :
                      \A i, j \in DOMAIN q : i < j => q[i].similarity >= q[j].similarity}}

BasicResults(response, market_id) ==
    [i \in 1..Len(response) |->
        <<IF response[i].market_id_1 = market_id
          THEN response[i].market_id_2 ELSE response[i].market_id_1,
          response[i].similarity, response[i].correlation, response[i].pressure>>]

\* mutant: the results stay in the order of the query
KeepQueryOrder(results) == results

\* sorted(results, key=lambda x: -x[3]): by descending pressure, ties in
\* the order of the list
RECURSIVE SortByPressureFrom(_, _)
SortByPressureFrom(sorted, rest) ==
    IF rest = <<>> THEN sorted
    ELSE LET x == Head(rest)
             k == Cardinality({j \in 1..Len(sorted) : sorted[j][4] >= x[4]})
         IN  SortByPressureFrom(SubSeq(sorted, 1, k) \o <<x>>
                                    \o SubSeq(sorted, k + 1, Len(sorted)),
                                Tail(rest))
SortByPressure(results) == SortByPressureFrom(<<>>, results)

\* the volume filter loop: a market without the volume is skipped, and the
\* loop breaks at the limit
RECURSIVE VolumeFilterFrom(_, _, _, _, _)
VolumeFilterFrom(basic_results, i, limit, min_volume, results) ==
    IF i > Len(basic_results) THEN results
    ELSE LET related_id == basic_results[i][1]
         IN  IF related_id \notin DOMAIN markets
                \/ OrZero(markets[related_id].volume) < min_volume
             THEN VolumeFilterFrom(basic_results, i + 1, limit, min_volume, results)
             ELSE IF Len(results) + 1 >= limit
             THEN Append(results, basic_results[i])
             ELSE VolumeFilterFrom(basic_results, i + 1, limit, min_volume,
                                   Append(results, basic_results[i]))

WithoutAnalysis(results) ==
    [i \in 1..Len(results) |->
        <<results[i][1], results[i][2], results[i][3], results[i][4],
          None, None, None, None, None>>]

\* get_related_markets with include_ai_analysis=False
GetRelatedMarkets(response, market_id, limit, min_volume) ==
    LET basic_results == BasicResults(response, market_id)
    IN  IF min_volume = None
        THEN WithoutAnalysis(SortByPressure(Truncate(basic_results, limit)))
        ELSE WithoutAnalysis(SortByPressure(
                 VolumeFilterFrom(basic_results, 1, limit, min_volume[1], <<>>)))

\* related_markets of get_related_markets_enriched with
\* include_ai_analysis=False
GetRelatedMarketsEnriched(response, market_id, limit, min_volume) ==
    LET basic_results == GetRelatedMarkets(response, market_id, limit, min_volume)
        found == SelectSeq(basic_results, LAMBDA t : t[1] \in DOMAIN markets)
        enriched_results ==
            [i \in 1..Len(found) |->
                <<found[i][1], found[i][2], found[i][3], found[i][4],
                  markets[found[i][1]], None, None, None, None, None>>]
    IN  SortByPressure(enriched_results)

\* ------------------------------ relation service: discovery for one market
\* stands for float('nan'): no comparison with a threshold holds for it
NaN == 0 - Unit

\* float(dot_product / (query_norm * emb_norm))
CosineSimilarity(query, row) ==
    IF Norm(query) = 0 THEN NaN
    ELSE (Dot(query, row) * Unit * Unit * Unit) \div (Norm(query) * Norm(row))

\* vector_service.find_similar_markets; the table returns the embeddings by
\* ascending market id
FindSimilarMarkets(query_embedding, limit) ==
    LET scored == {m \in EmbeddingMarketIds : Norm(emb[m]) # 0}
        similarities == [m \in scored |-> CosineSimilarity(query_embedding, emb[m])]
    IN  Truncate(SortDescending(scored, similarities), limit)

\* vector_service.find_similar_to_market, for a market with an embedding
FindSimilarToMarket(market_id, limit) ==
    Truncate(SelectSeq(FindSimilarMarkets(emb[market_id], limit + 1),
                       LAMBDA c : c[1] # market_id),
             limit)

\* without an embedding find_similar_to_market raises, and the result is []
FindSimilarMarketsForRelation(market_id, similarity_threshold, limit) ==
    IF emb[market_id] = NoEmb THEN <<>>
    ELSE SelectSeq(FindSimilarToMarket(market_id, limit),
                   LAMBDA c : c[2] >= similarity_threshold)

\* one iteration of the loop over similar_markets of
\* create_relations_for_market
CollectCandidate(market_id, cand, existing_market_ids, correlation_threshold, acc) ==
    IF cand[1] \in existing_market_ids THEN [acc EXCEPT !.skipped = @ + 1]
    ELSE IF cand[1] = market_id THEN acc
    ELSE IF cand[1] \notin DOMAIN markets THEN acc
    ELSE LET correlation == CalculateCorrelation(markets[market_id], markets[cand[1]])
         IN  IF correlation < correlation_threshold
             THEN [acc EXCEPT !.skipped = @ + 1]
             ELSE [acc EXCEPT !.relations =
                      Append(@, MarketRelationCreate(
                                    market_id, cand[1], cand[2], <<correlation>>,
                                    <<CalculatePressure(cand[2], correlation,
                                                        markets[market_id],
                                                        markets[cand[1]])>>))]

RECURSIVE CollectFrom(_, _, _, _, _, _)
CollectFrom(market_id, similar_markets, i, existing_market_ids, correlation_threshold, acc) ==
    IF i > Len(similar_markets) THEN acc
    ELSE CollectFrom(market_id, similar_markets, i + 1, existing_market_ids,
                     correlation_threshold,
                     CollectCandidate(market_id, similar_markets[i],
                                      existing_market_ids, correlation_threshold, acc))

\* limit of the existing-relations query of create_relations_for_market
ExistingLimit == 1000

\* for mid, _, _, _ in existing_relations: every tuple unpacks into four names
Unpacks(existing_relations) ==
    \A i \in 1..Len(existing_relations) : Len(existing_relations[i]) = 4

\* create_relations_for_market; response: the rows its existing-relations
\* query returns, fails: the positions of the batch whose write raises.
\* {mid for mid, _, _, _ in existing_relations} raises ValueError on a tuple
\* that has not four elements; the handler of the function returns (0, 0)
CreateRelationsForMarket(rows, market_id, similarity_threshold, correlation_threshold, limit, response, fails) ==
    LET nothing == [rows |-> rows, result |-> <<0, 0>>, failed |-> 0]
        similar_markets ==
            FindSimilarMarketsForRelation(market_id, similarity_threshold, limit)
        existing_relations ==
            GetRelatedMarkets(response, market_id, ExistingLimit, None)
        existing_market_ids ==
            {existing_relations[i][1] : i \in 1..Len(existing_relations)}
        acc == CollectFrom(market_id, similar_markets, 1, existing_market_ids,
                           correlation_threshold,
                           [relations |-> <<>>, skipped |-> 0])
        batch == CreateRelationsBatch(rows, acc.relations, fails)
    IN  IF market_id \notin DOMAIN markets THEN nothing
        ELSE IF similar_markets = <<>> THEN nothing
        ELSE IF ~Unpacks(existing_relations) THEN nothing
        ELSE IF acc.relations = <<>>
        THEN [rows |-> rows, result |-> <<0, acc.skipped>>, failed |-> 0]
        ELSE [rows |-> batch.rows,
              result |-> <<batch.created, acc.skipped + batch.failed>>,
              failed |-> batch.failed]

\* ------------------------------------------------ relation service: calls
MaxRows == 2
MaxLimit == 2

\* the scores a caller of the service passes
Scores == {[similarity |-> Unit, correlation |-> Unit, pressure |-> 7],
           [similarity |-> 7 * 10, correlation |-> 0, pressure |-> 36]}
\* default of min_similarity
MinSimilarity == 70
MinVolumes == {None, <<10>>}
Failing == SUBSET (1..MaxFailures)

CreateRelationCall ==
    /\ \E a, b \in Markets, score \in Scores, ok \in BOOLEAN :
        /\ a # b
        /\ store' = CreateRelation(store, a, b, score.similarity,
                                   score.correlation, score.pressure, ok)
        /\ Cardinality(store') <= MaxRows
        /\ last' = Call("create_relation", <<a, b>>,
                        IF ok THEN <<CreateRelationData(a, b, score.similarity,
                                                        score.correlation,
                                                        score.pressure)>>
                        ELSE <<>>,
                        IF ok THEN 0 ELSE 1)
    /\ UNCHANGED <<inputVars, run>>

\* a batch of two relations of one pair, in the one and the other order,
\* the second without correlation
CreateRelationsBatchCall ==
    /\ \E a, b \in Markets, fails \in Failing :
        \E batch \in {CreateRelationsBatch(
                           store,
                           <<MarketRelationCreate(a, b, Unit, <<Unit>>, <<7>>),
                             MarketRelationCreate(b, a, 7 * 10, None, <<36>>)>>,
                           fails)} :
            /\ a # b
            /\ store' = batch.rows
            /\ Cardinality(store') <= MaxRows
            /\ last' = Call("create_relations_batch", <<fails>>,
                            <<batch.created, batch.failed, batch.total>>,
                            batch.failed)
    /\ UNCHANGED <<inputVars, run>>

DeleteRelationCall ==
    /\ \E a, b \in Markets :
        /\ a # b
        /\ store' = DeleteRelation(store, a, b)
        /\ last' = Call("delete_relation", <<>>, <<store' # store>>, 0)
    /\ UNCHANGED <<inputVars, run>>

GetRelatedMarketsCall ==
    /\ \E m \in Markets, limit \in 1..MaxLimit, min_volume \in MinVolumes :
        \E response \in Responses(store, m, MinSimilarity, limit) :
            last' = Call("get_related_markets", <<min_volume>>,
                         GetRelatedMarkets(response, m, limit, min_volume), 0)
    /\ UNCHANGED <<inputVars, store, run>>

GetRelatedMarketsEnrichedCall ==
    /\ \E m \in Markets, limit \in 1..MaxLimit, min_volume \in MinVolumes :
        \E response \in Responses(store, m, MinSimilarity, limit) :
            last' = Call("get_related_markets_enriched", <<min_volume>>,
                         GetRelatedMarketsEnriched(response, m, limit, min_volume), 0)
    /\ UNCHANGED <<inputVars, store, run>>

CreateRelationsForMarketCall ==
    /\ \E m \in Markets, limit \in {1, LimitPerMarket}, fails \in Failing :
        \E response \in Responses(store, m, 0, ExistingLimit) :
            \E done \in {CreateRelationsForMarket(store, m, SimilarityThreshold,
                                                   CorrelationThreshold, limit,
                                                   response, fails)} :
                /\ store' = done.rows
                /\ Cardinality(store') <= MaxRows
                /\ last' = Call("create_relations_for_market",
                                <<m, SimilarityThreshold, CorrelationThreshold, limit>>,
                                done.result, done.failed)
    /\ UNCHANGED <<inputVars, run>>

\* the relation service: writes and reads of stored relations
NextService ==
    \/ CreateRelationCall
    \/ CreateRelationsBatchCall
    \/ DeleteRelationCall
    \/ GetRelatedMarketsCall
    \/ GetRelatedMarketsEnrichedCall

\* the relation service: discovery for single markets, between writes
NextDiscovery ==
    \/ CreateRelationCall
    \/ DeleteRelationCall
    \/ CreateRelationsForMarketCall

\* every run has read the table
Loaded == \A r \in RunIds : run[r].pc # "idle"

\* the writers of the table: a full-corpus run, and the service called
\* while the run works and after it
NextStore ==
    \/ Next
    \/ Loaded /\ CreateRelationCall
    \/ Loaded /\ CreateRelationsBatchCall
    \/ Loaded /\ DeleteRelationCall

\* ------------------------------------------------------------ the inputs
QuietMarket == [one_day_price_change |-> None, one_week_price_change |-> None,
                one_month_price_change |-> None, volume |-> None]
MovingMarket == [one_day_price_change |-> <<-28>>, one_week_price_change |-> None,
                 one_month_price_change |-> <<28>>, volume |-> <<50>>]

DefaultArgs == [similarity_threshold |-> SimilarityThreshold,
                correlation_threshold |-> CorrelationThreshold,
                limit_per_market |-> LimitPerMarket,
                skip_existing |-> TRUE, batch_size |-> BatchSize]

AllQuiet == [m \in Markets |-> QuietMarket]
AllSimilar == [m \in Markets |-> E1]
NoLoss == [m \in Markets |-> 0]
NoFault == [m \in Markets |-> 0]
Ascending == [i \in 1..NMarkets |-> i]
Descending == [i \in 1..NMarkets |-> NMarkets + 1 - i]
OneRun == [r \in RunIds |-> IF r = 1 THEN IdleRun ELSE OffRun]
TwoRuns == [r \in RunIds |-> IdleRun]

Orders == Perms(Markets)

\* at most one market differs from the default
OneMover == {AllQuiet} \cup {[AllQuiet EXCEPT ![m] = MovingMarket] : m \in Markets}
OneLossy == {NoLoss} \cup {[NoLoss EXCEPT ![m] = e] : m \in Markets, e \in 1..MaxErr}
OneFault == {NoFault} \cup {[NoFault EXCEPT ![m] = k] : m \in Markets, k \in 1..NMarkets}

CanonicalPairs == {p \in Markets \X Markets : p[1] < p[2]}
\* a relation as an earlier run over quiet, identical markets wrote it
StoredRelation(p) == Relation(p[1], p[2], Unit, Unit, Unit \div 10)
RECURSIVE StoreOf(_)
StoreOf(pairs) ==
    IF pairs = {} THEN {}
    ELSE LET p == CHOOSE q \in pairs : \A o \in pairs :
                      q[1] > o[1] \/ (q[1] = o[1] /\ q[2] >= o[2])
         IN  UpsertOne(StoreOf(pairs \ {p}), StoredRelation(p))
Stores == {StoreOf(pairs) : pairs \in SUBSET CanonicalPairs}

\* one run; the embeddings, the rounding, the price data and the order vary
InitDedupe ==
    /\ emb \in [Markets -> {E1, E2}]
    /\ qerr \in OneLossy
    /\ markets \in OneMover
    /\ iterOrder \in Orders
    /\ lostPage = {} /\ simFault = {} /\ relFault = NoFault
    /\ args = DefaultArgs
    /\ store = {}
    /\ run = OneRun
    /\ last = NoCall
    /\ vs = NewVectorService
    /\ ai = NoQuery

\* one run; the stored relations and skip_existing vary
InitIndex ==
    /\ emb = AllSimilar /\ qerr = NoLoss /\ markets = AllQuiet
    /\ iterOrder \in Orders
    /\ lostPage = {} /\ simFault = {} /\ relFault = NoFault
    /\ args \in {[DefaultArgs EXCEPT !.skip_existing = b] : b \in BOOLEAN}
    /\ store \in Stores
    /\ run = OneRun
    /\ last = NoCall
    /\ vs = NewVectorService
    /\ ai = NoQuery

\* one run; one market fails in one of the ways a market can fail
InitFaults ==
    /\ qerr = NoLoss /\ markets = AllQuiet
    /\ iterOrder \in Orders
    /\ \E m \in Markets :
         \/ /\ emb \in {[AllSimilar EXCEPT ![m] = v] : v \in {Zero, E3, NoEmb}}
            /\ lostPage = {} /\ simFault = {} /\ relFault = NoFault
         \/ /\ emb = AllSimilar /\ lostPage = {m}
            /\ simFault = {} /\ relFault = NoFault
         \/ /\ emb = AllSimilar /\ lostPage = {} /\ simFault = {m}
            /\ relFault = NoFault
         \/ /\ emb = AllSimilar /\ lostPage = {} /\ simFault = {}
            /\ relFault \in OneFault
    /\ args \in {[DefaultArgs EXCEPT !.skip_existing = b] : b \in BOOLEAN}
    /\ store = {}
    /\ run = OneRun
    /\ last = NoCall
    /\ vs = NewVectorService
    /\ ai = NoQuery

\* one run; the batch size and the per-market limit vary
InitCommit ==
    /\ emb = AllSimilar /\ qerr = NoLoss /\ markets = AllQuiet
    /\ iterOrder \in {Ascending, Descending}
    /\ lostPage = {} /\ simFault = {} /\ relFault = NoFault
    /\ args \in {[DefaultArgs EXCEPT !.batch_size = b, !.limit_per_market = l] :
                     b \in 1..MaxBatchSize, l \in {1, LimitPerMarket}}
    /\ store = {}
    /\ run = OneRun
    /\ last = NoCall
    /\ vs = NewVectorService
    /\ ai = NoQuery

\* two runs over the same data, started at any time; the last market may
\* lose a rounding step as the query
InitTwoRuns ==
    /\ emb = AllSimilar /\ markets = AllQuiet
    /\ qerr \in {NoLoss, [NoLoss EXCEPT ![NMarkets] = 1]}
    /\ iterOrder \in {Ascending, Descending}
    /\ lostPage = {} /\ simFault = {} /\ relFault = NoFault
    /\ args \in {[DefaultArgs EXCEPT !.batch_size = b] : b \in 1..MaxBatchSize}
    /\ store = {}
    /\ run = TwoRuns
    /\ last = NoCall
    /\ vs = NewVectorService
    /\ ai = NoQuery

Init == InitDedupe \/ InitIndex \/ InitFaults \/ InitCommit \/ InitTwoRuns

Spec == Init /\ [][Next]_vars

OneQuiet == [m \in Markets |-> IF m = 1 THEN QuietMarket ELSE MovingMarket]
FirstTwo == [m \in Markets |-> IF m <= 2 THEN E1 ELSE NoEmb]
NoRuns == [r \in RunIds |-> OffRun]

\* the relation service over an empty table; one market has no volume
InitService ==
    /\ emb = AllSimilar /\ qerr = NoLoss /\ markets = OneQuiet
    /\ iterOrder = Ascending
    /\ lostPage = {} /\ simFault = {} /\ relFault = NoFault
    /\ args = DefaultArgs
    /\ store = {}
    /\ run = NoRuns
    /\ last = NoCall
    /\ vs = NewVectorService
    /\ ai = NoQuery

SpecService == InitService /\ [][NextService]_vars

\* discovery over an empty table; the price data varies, or the embedding
\* of one market
InitDiscovery ==
    /\ \/ emb = AllSimilar /\ markets \in OneMover
       \/ markets = AllQuiet
          /\ emb \in {[AllSimilar EXCEPT ![m] = v] : m \in Markets, v \in {Zero, E3, NoEmb}}
    /\ qerr = NoLoss /\ iterOrder = Ascending
    /\ lostPage = {} /\ simFault = {} /\ relFault = NoFault
    /\ args = DefaultArgs
    /\ store = {}
    /\ run = NoRuns
    /\ last = NoCall
    /\ vs = NewVectorService
    /\ ai = NoQuery

SpecDiscovery == InitDiscovery /\ [][NextDiscovery]_vars

\* one run over an empty table and two markets with embeddings, and the
\* service
InitStore ==
    /\ emb = FirstTwo /\ qerr = NoLoss /\ markets = AllQuiet
    /\ iterOrder = Descending
    /\ lostPage = {} /\ simFault = {} /\ relFault = NoFault
    /\ args = DefaultArgs
    /\ store = {}
    /\ run = OneRun
    /\ last = NoCall
    /\ vs = NewVectorService
    /\ ai = NoQuery

SpecStore == InitStore /\ [][NextStore]_vars

\* ================================================================ claims
Staged(r) == run[r].relations_to_create
Unique(r) == run[r].unique_relations
Deduplicated(r) == run[r].pc \in {"commit", "done"}
SimilaritiesOf(relations, key) ==
    {relations[i].similarity : i \in {k \in 1..Len(relations) : Key(relations[k]) = key}}

\* C2: after DEDUPE the list handed to COMMIT holds exactly one record for
\* each staged canonical pair, a staged record whose similarity is the
\* maximum of the similarities staged for the pair.
Thm_C2 ==
    \A r \in RunIds : Deduplicated(r) =>
        /\ Keys(Range(Unique(r))) = Keys(Range(Staged(r)))
        /\ \A i, j \in 1..Len(Unique(r)) :
               i # j => Key(Unique(r)[i]) # Key(Unique(r)[j])
        /\ \A i \in 1..Len(Unique(r)) :
               /\ Unique(r)[i] \in Range(Staged(r))
               /\ \A sim \in SimilaritiesOf(Staged(r), Key(Unique(r)[i])) :
                      sim <= Unique(r)[i].similarity

\* a pair staged twice, the second time with the higher similarity
Wit_C2 ==
    \E r \in RunIds :
        /\ run[r].pc = "commit"
        /\ \E i, j \in 1..Len(Staged(r)) :
              /\ i < j
              /\ Key(Staged(r)[i]) = Key(Staged(r)[j])
              /\ Staged(r)[i].similarity < Staged(r)[j].similarity

\* the records a run processing its markets in ascending order commits
AscendingResult(r) ==
    Deduplicate(StageAll(SelectSeq(Ascending,
                                   LAMBDA m : m \in Range(run[r].markets_to_process)),
                         run[r].similarity_cache, run[r].relation_cache))

\* C3: the records committed for the canonical pairs (similarity,
\* correlation and pressure) are the same for every processing order,
\* also when both sides of a pair stage a record of equal similarity.
Thm_C3 ==
    \A r \in RunIds : Deduplicated(r) =>
        Range(Unique(r)) = Range(AscendingResult(r))

\* a run in another order than ascending, with a pair staged from both
\* sides at equal similarity by markets of different volatility
Wit_C3 ==
    \E r \in RunIds :
        /\ run[r].pc = "commit"
        /\ \E i, j \in 1..Len(run[r].markets_to_process) :
              i < j /\ run[r].markets_to_process[i] > run[r].markets_to_process[j]
        /\ \E i, j \in 1..Len(Staged(r)) :
              /\ i < j
              /\ Key(Staged(r)[i]) = Key(Staged(r)[j])
              /\ Staged(r)[i].similarity = Staged(r)[j].similarity
              /\ markets[Staged(r)[i].market_id_1] # markets[Staged(r)[i].market_id_2]

\* the pairs of the existing-relation index of a run
IndexedPairs(r) ==
    {Canon(q[1], q[2]) : q \in {p \in Markets \X Markets :
                                    p[2] \in run[r].relation_cache[p[1]]}}

\* C4: no staged relation pairs a market with itself or repeats a pair of
\* the existing-relation index built at INIT, whatever skip_existing is.
Thm_C4 ==
    \A r \in RunIds : \A rel \in Range(Staged(r)) :
        /\ rel.market_id_1 # rel.market_id_2
        /\ Key(rel) \notin IndexedPairs(r)

\* skip_existing off, and a processed market has a similar market that the
\* index already relates to it, next to one that it stages
Wit_C4 ==
    \E r \in RunIds :
        /\ run[r].pc = "dedupe"
        /\ ~args.skip_existing
        /\ Staged(r) # <<>>
        /\ \E m \in Range(run[r].markets_to_process) :
              \E c \in Range(run[r].similarity_cache[m]) :
                  c[1] \in run[r].relation_cache[m]

\* a market whose processing fails in neither phase
Healthy(m) ==
    /\ m \in EmbeddingCache
    /\ m \notin simFault
    /\ Norm(emb[m]) # 0
    /\ relFault[m] = 0
\* the pairs a healthy market has to stage
PairsOf(r, m) ==
    {Canon(m, x) : x \in {y \in EmbeddingCache \ {m} :
        /\ RowSimilarity(emb[m], emb[y], qerr[m]) >= args.similarity_threshold
        /\ y \notin run[r].relation_cache[m]}}

\* C6: a failure while processing one market (embedding not loaded,
\* zero-norm query, exception in the similarity or relation calculation)
\* stays with that market: every other market to process is processed and
\* its relations are handed to COMMIT, which attempts every batch.
Thm_C6 ==
    \A r \in RunIds :
        args.limit_per_market >= NMarkets =>
            \A m \in Range(run[r].markets_to_process) : Healthy(m) =>
                /\ run[r].pc \in {"dedupe", "commit", "done"} =>
                       PairsOf(r, m) \subseteq Keys(Range(Staged(r)))
                /\ Deduplicated(r) =>
                       /\ PairsOf(r, m) \subseteq Keys(Range(Unique(r)))
                       /\ run[r].pc = "done" => run[r].written >= Len(Unique(r))

\* a market failed, a healthy market processed after it has relations,
\* and the run is committing
Wit_C6 ==
    \E r \in RunIds :
        /\ run[r].pc = "commit"
        /\ \E i, j \in 1..Len(run[r].markets_to_process) :
              /\ i < j
              /\ relFault[run[r].markets_to_process[i]] > 0
              /\ Healthy(run[r].markets_to_process[j])
              /\ PairsOf(r, run[r].markets_to_process[j]) # {}

\* C7: in COMMIT every batch is attempted and counted once, as created or
\* (all of it) as failed: the counts add up to the records attempted so
\* far, and at the end to the number of deduplicated relations.
Thm_C7 ==
    \A r \in RunIds : Deduplicated(r) =>
        /\ run[r].total_created + run[r].total_failed
               = Min(run[r].written, Len(Unique(r)))
        /\ run[r].pc = "done" /\ Unique(r) # <<>> =>
               run[r].total_created + run[r].total_failed = Len(Unique(r))
        /\ LET short == (args.batch_size - (Len(Unique(r)) % args.batch_size))
                            % args.batch_size
           IN  run[r].total_failed \in
                   {run[r].failed_batches * args.batch_size,
                    run[r].failed_batches * args.batch_size - short}

\* a batch of several records failed and a later batch was written
Wit_C7 ==
    \E r \in RunIds :
        /\ run[r].pc = "done"
        /\ run[r].total_failed > run[r].failed_batches
        /\ run[r].failed_batches > 0
        /\ Unique(r)[1] \notin Relations(store)
        /\ Unique(r)[Len(Unique(r))] \in Relations(store)

\* the relations of the table after one run from `existing` in which no
\* batch write fails
SingleRun(existing) ==
    LET relation_cache == RelationCache(existing)
        to_process == MarketsToProcess(relation_cache)
    IN  existing \cup Range(Deduplicate(StageAll(to_process,
                                                [m \in Markets |-> SimilarMarkets(m)],
                                                relation_cache)))

\* C8 (as claimed): after a run some of whose batch writes failed, a later
\* run with skip_existing=True over the same data brings the table to the
\* relations of one uninterrupted run and leaves the committed ones as
\* they are.
Claim_C8 ==
    \A r1, r2 \in RunIds :
        (/\ r1 # r2
         /\ args.skip_existing
         /\ run[r1].pc = "done" /\ run[r1].failed_batches > 0
         /\ run[r2].pc = "done" /\ run[r2].failed_batches = 0
         /\ r1 \in run[r2].after)
        => /\ Relations(store) = SingleRun(run[r1].existing_relations)
           /\ run[r2].existing_relations \subseteq Relations(store)

\* the relations the table held when the first of the runs read it
FirstRead ==
    LET first == CHOOSE r \in RunIds : \A q \in RunIds :
                     run[r].existing_relations \subseteq run[q].existing_relations
    IN  run[first].existing_relations

\* both runs have finished and no batch write has failed
BothDone == \A r \in RunIds : run[r].pc = "done" /\ run[r].failed_batches = 0

Pair(row) == {row.market_id_1, row.market_id_2}

\* C1: after any sequence of create_relation, create_relations_batch,
\* delete_relation and batch commits of a run, with the ids given in either
\* order, every stored row has the key (min(a,b), max(a,b)), no two rows
\* have the same unordered pair, and create_relation(a, b) writes to the
\* key (min(a,b), max(a,b)).
Thm_C1 ==
    /\ \A row \in store :
          Key(row) = <<Min(row.market_id_1, row.market_id_2),
                       Max(row.market_id_1, row.market_id_2)>>
    /\ \A row1, row2 \in store : Pair(row1) = Pair(row2) => row1 = row2
    /\ last.op = "create_relation" /\ last.failed = 0 =>
          Key(last.result[1]) = <<Min(last.args[1], last.args[2]),
                                  Max(last.args[1], last.args[2])>>

\* create_relation was called with the larger id first, for a pair that a
\* run had committed, and the table holds rows of both writers
Wit_C1 ==
    /\ last.op = "create_relation" /\ last.failed = 0
    /\ last.args[1] > last.args[2]
    /\ \E r \in RunIds :
          /\ run[r].total_created > 0
          /\ Canon(last.args[1], last.args[2]) \in Keys(Range(Unique(r)))
    /\ Cardinality(store) > 1

\* the candidates create_relations_for_market has to relate to the market
\* of the last call
Qualifying ==
    LET similar_markets ==
            FindSimilarMarketsForRelation(last.args[1], last.args[2], last.args[4])
    IN  {c \in {similar_markets[i][1] : i \in 1..Len(similar_markets)} :
            /\ c # last.args[1]
            /\ CalculateCorrelation(markets[last.args[1]], markets[c]) >= last.args[3]}

\* C5 (as claimed): after create_relations_for_market(m, T_sim, T_corr) in
\* which no write fails, every similar candidate with similarity >= T_sim
\* and correlation >= T_corr other than m is related to m in the table,
\* also when m had stored relations before the call.
Claim_C5 ==
    last.op = "create_relations_for_market" /\ last.failed = 0 =>
        \A c \in Qualifying : Canon(last.args[1], c) \in Keys(store)

Pressures(result) == [i \in 1..Len(result) |-> result[i][4]]
NonIncreasing(s) == \A i, j \in 1..Len(s) : i < j => s[i] >= s[j]

\* C10: get_related_markets and get_related_markets_enriched without AI
\* analysis return their tuples in non-increasing order of pressure,
\* whatever the table holds, for every limit, with and without min_volume.
Thm_C10 ==
    last.op \in {"get_related_markets", "get_related_markets_enriched"} =>
        NonIncreasing(Pressures(last.result))

\* get_related_markets with a min_volume returned two relations, the one
\* of the lower similarity first
Wit_C10 ==
    /\ last.op = "get_related_markets"
    /\ last.args[1] # None
    /\ Len(last.result) = 2
    /\ last.result[1][2] < last.result[2][2]
    /\ last.result[1][4] > last.result[2][4]

\* ======================================================= the pure scorers
\* ------------------------------------- volatility inside the AI analysis
RECURSIVE Sum(_)
Sum(s) == IF s = <<>> THEN 0 ELSE Head(s) + Sum(Tail(s))

\* changes.append(abs(x)) when x is present
Append1(changes, x) == IF x # None THEN Append(changes, AbsVal(x[1])) ELSE changes

\* mutant: the average is taken over all three fields
CalculateVolatilityOfThree(market) ==
    LET changes == Append1(Append1(Append1(<<>>, market.one_day_price_change),
                                   market.one_week_price_change),
                           market.one_month_price_change)
    IN  Sum(changes) \div 3

\* calculate_volatility of analyze_market_correlation
CalculateVolatility(market) ==
    LET changes == Append1(Append1(Append1(<<>>, market.one_day_price_change),
                                   market.one_week_price_change),
                           market.one_month_price_change)
    IN  IF changes # <<>> THEN Sum(changes) \div Len(changes) ELSE 0

\* ------------------------------------------------------ scorer: the calls
\* the markets whose price data varies
Scored == {1, 2}
\* price changes: absent, a fall, a rise, a rise of more than 1.0
DayChanges == {None, <<-30>>, <<10>>, <<250>>}
WeekChanges == {None, <<-30>>}
MonthChanges == {None, <<250>>}
PriceData ==
    {[one_day_price_change |-> d, one_week_price_change |-> w,
      one_month_price_change |-> m, volume |-> None] :
        d \in DayChanges, w \in WeekChanges, m \in MonthChanges}
\* similarity and correlation as the callers pass them, in [0, 1]
UnitInterval == {0, 9 * 10, Unit}

CalculatePressureCall ==
    /\ \E a, b \in Scored, similarity, correlation \in UnitInterval :
        last' = Call("calculate_pressure", <<similarity, correlation, a, b>>,
                     <<CalculatePressure(similarity, correlation,
                                         markets[a], markets[b])>>, 0)
    /\ UNCHANGED <<inputVars, store, run>>

CalculateVolatilityCall ==
    /\ \E m \in Scored :
        last' = Call("calculate_volatility", <<m>>,
                     <<CalculateVolatilityFromPriceChanges(markets[m]),
                       CalculateVolatility(markets[m])>>, 0)
    /\ UNCHANGED <<inputVars, store, run>>

NextScorer ==
    \/ CalculatePressureCall
    \/ CalculateVolatilityCall

\* the scorers over two markets with any price data
InitScorer ==
    /\ markets \in {[m \in Markets |-> IF m = 1 THEN first
                                      ELSE IF m = 2 THEN second ELSE QuietMarket] :
                        first, second \in PriceData}
    /\ emb = AllSimilar /\ qerr = NoLoss /\ iterOrder = Ascending
    /\ lostPage = {} /\ simFault = {} /\ relFault = NoFault
    /\ args = DefaultArgs
    /\ store = {}
    /\ run = NoRuns
    /\ last = NoCall
    /\ vs = NewVectorService
    /\ ai = NoQuery

SpecScorer == InitScorer /\ [][NextScorer]_vars

\* ------------------------------------------------------------------ C11
\* C11: for similarity and correlation in [0, 1] and any price-change data
\* of the two markets, calculate_pressure returns a value in [0, 1].
Thm_C11 ==
    last.op = "calculate_pressure" =>
        /\ last.result[1] >= 0
        /\ last.result[1] <= Unit

\* full similarity and correlation, and volatilities more than 1.0 apart
Wit_C11 ==
    /\ last.op = "calculate_pressure"
    /\ last.args[1] = Unit /\ last.args[2] = Unit
    /\ AbsVal(CalculateVolatilityFromPriceChanges(markets[last.args[3]])
              - CalculateVolatilityFromPriceChanges(markets[last.args[4]])) > Unit
    /\ last.result[1] = Unit

\* ------------------------------------------------------------------ C12
\* C12: when the two markets' volatilities are equal (none of them need
\* have price-change data), calculate_pressure returns
\* similarity * correlation * 0.1.
Thm_C12 ==
    /\ last.op = "calculate_pressure"
    /\ CalculateVolatilityFromPriceChanges(markets[last.args[3]])
         = CalculateVolatilityFromPriceChanges(markets[last.args[4]])
    => last.result[1] = (last.args[1] * last.args[2] * (Unit \div 10)) \div (Unit * Unit)

\* two markets with different price data of equal, positive volatility,
\* similarity 0.9 and correlation 0.9
Wit_C12 ==
    /\ last.op = "calculate_pressure"
    /\ last.args[1] = 9 * 10 /\ last.args[2] = 9 * 10
    /\ markets[last.args[3]] # markets[last.args[4]]
    /\ CalculateVolatilityFromPriceChanges(markets[last.args[3]]) > 0
    /\ CalculateVolatilityFromPriceChanges(markets[last.args[3]])
         = CalculateVolatilityFromPriceChanges(markets[last.args[4]])
    /\ last.result[1] = 8

\* ------------------------------------------------------------------ C13
PriceChangeFields == {"one_day_price_change", "one_week_price_change", "one_month_price_change"}
PresentFields(market) == {f \in PriceChangeFields : market[f] # None}
RECURSIVE Magnitude(_, _)
Magnitude(market, fields) ==
    IF fields = {} THEN 0
    ELSE LET f == CHOOSE g \in fields : TRUE
         IN  AbsVal(market[f][1]) + Magnitude(market, fields \ {f})
MeanMagnitude(market) ==
    IF PresentFields(market) = {} THEN 0
    ELSE Magnitude(market, PresentFields(market)) \div Cardinality(PresentFields(market))

\* C13: the volatility of a market is the average of the absolute values of
\* its price changes that are present, 0.0 when none is, and the scorer's
\* estimator and the one of analyze_market_correlation return the same.
Thm_C13 ==
    last.op = "calculate_volatility" =>
        /\ last.result[1] = MeanMagnitude(markets[last.args[1]])
        /\ last.result[2] = last.result[1]

\* a market with two of its three price changes present, one of them a fall
Wit_C13 ==
    /\ last.op = "calculate_volatility"
    /\ Cardinality(PresentFields(markets[last.args[1]])) = 2
    /\ markets[last.args[1]].one_day_price_change = <<-30>>
    /\ last.result = <<140, 140>>

\* ============================================ the expected-value solver
\* Prices, probabilities, stakes and the correlation are in hundredths, the
\* joint probabilities in ten-thousandths (Unit * Unit stands for 1.0), the
\* expected profit and the ROI in millionths.  The grid is coarser than the
\* program's eps of 1e-6: eps is kept as the smallest positive step of the
\* grid, so two probabilities that differ by no more than eps in the
\* program differ by one step here.
Eps == 1
MaxRho == 95

Whole == Unit * Unit

\* float(text) of the price strings the model draws; any other text raises
\* ValueError
Floats == ("0" :> 0) @@ ("0.4" :> 40) @@ ("0.6" :> 60) @@ ("1" :> Unit) @@ ("1.5" :> 150)

\* _safe_float of a price string
SafeFloatText(value, default) == IF value \in DOMAIN Floats THEN Floats[value] ELSE default
\* _safe_float of an optional number
SafeFloat(value, default) == IF value = None THEN default ELSE value[1]

Clamp(x, lo, hi) == Max(lo, Min(hi, x))

\* mutant: a missing or unparseable price counts as 0
PriceOfNothing(market) ==
    Clamp(IF market.outcome_prices # <<>>
          THEN SafeFloatText(market.outcome_prices[1], 0)
          ELSE 0, 0, Unit)

\* max(0.0, min(1.0, _safe_float(outcome_prices[0] if outcome_prices else 0.5, 0.5)))
PriceOf(market) ==
    Clamp(IF market.outcome_prices # <<>>
          THEN SafeFloatText(market.outcome_prices[1], Unit \div 2)
          ELSE Unit \div 2, 0, Unit)

\* str.upper of the labels the model draws
Upper == ("YES" :> "YES") @@ ("NO" :> "NO") @@ ("AVOID" :> "AVOID") @@ ("yes" :> "YES") @@ ("HOLD" :> "HOLD")
ValidPositions == {"YES", "NO", "AVOID"}

\* (recommended_position or "AVOID").upper(), AVOID when not a valid position
PositionOf(recommended_position) ==
    LET position == IF recommended_position = None THEN "AVOID"
                    ELSE Upper[recommended_position[1]]
    IN  IF position \notin ValidPositions THEN "AVOID" ELSE position

PositionCost(position, price) ==
    IF position = "YES" THEN price
    ELSE IF position = "NO" THEN Unit - price
    ELSE 0

\* mutant: a NO position that loses, loses the price
PositionProfitOfPrice(position, price, outcome_yes) ==
    IF position = "YES" THEN (IF outcome_yes THEN Unit - price ELSE -price)
    ELSE IF position = "NO" THEN (IF ~outcome_yes THEN price ELSE -price)
    ELSE 0

PositionProfit(position, price, outcome_yes) ==
    IF position = "YES" THEN (IF outcome_yes THEN Unit - price ELSE -price)
    ELSE IF position = "NO" THEN (IF ~outcome_yes THEN price ELSE -(Unit - price))
    ELSE 0

\* math.sqrt, rounded down, by bisection
RECURSIVE RootBetween(_, _, _)
RootBetween(n, lo, hi) ==
    IF lo >= hi THEN lo
    ELSE LET mid == (lo + hi + 1) \div 2
         IN  IF mid * mid <= n THEN RootBetween(n, mid, hi)
             ELSE RootBetween(n, lo, mid - 1)
Root(n) == RootBetween(n, 0, Min(n, Whole))

Scenarios == {"both_yes", "market1_yes_market2_no", "market1_no_market2_yes", "both_no"}
Table(yy, yn, ny, nn) ==
    [both_yes |-> yy, market1_yes_market2_no |-> yn,
     market1_no_market2_yes |-> ny, both_no |-> nn]
Total(table) ==
    table.both_yes + table.market1_yes_market2_no
    + table.market1_no_market2_yes + table.both_no

\* mutant: p11 is not clamped into its bounds and the table is not
\* renormalised
JointProbabilitiesRaw(true_prob_a, true_prob_b, signed_corr) ==
    LET p_a == Min(Unit - Eps, Max(Eps, true_prob_a))
        p_b == Min(Unit - Eps, Max(Eps, true_prob_b))
        rho == Max(-MaxRho, Min(MaxRho, signed_corr))
        root_term == Root(Max(p_a * (Unit - p_a) * p_b * (Unit - p_b), 0))
        p11 == p_a * p_b + (rho * root_term) \div Unit
        p10 == p_a * Unit - p11
        p01 == p_b * Unit - p11
        p00 == Whole - p_a * Unit - p_b * Unit + p11
    IN  Table(Max(p11, 0), Max(p10, 0), Max(p01, 0), Max(p00, 0))

\* _joint_probabilities
JointProbabilities(true_prob_a, true_prob_b, signed_corr) ==
    LET p_a == Min(Unit - Eps, Max(Eps, true_prob_a))
        p_b == Min(Unit - Eps, Max(Eps, true_prob_b))
        rho == Max(-MaxRho, Min(MaxRho, signed_corr))
        root_term == Root(Max(p_a * (Unit - p_a) * p_b * (Unit - p_b), 0))
        raw_p11 == p_a * p_b + (rho * root_term) \div Unit
        min_p11 == Max(0, (p_a + p_b - Unit) * Unit)
        max_p11 == Min(p_a, p_b) * Unit
        p11 == Min(Max(raw_p11, min_p11), max_p11)
        p10 == p_a * Unit - p11
        p01 == p_b * Unit - p11
        p00 == Whole - p_a * Unit - p_b * Unit + p11
        probs == Table(Max(p11, 0), Max(p10, 0), Max(p01, 0), Max(p00, 0))
        total_prob == Total(probs)
    IN  IF total_prob > 0
        THEN [k \in Scenarios |-> (probs[k] * Whole) \div total_prob]
        ELSE Table(p_a * p_b, p_a * (Unit - p_b),
                   (Unit - p_a) * p_b, (Unit - p_a) * (Unit - p_b))

NoActionableStrategy == "No actionable strategy - both markets flagged as AVOID."
HoldCash == "Hold cash - no favorable trades identified."

\* the result of the short-circuit
ZeroStake(true_prob_market1, true_prob_market2, price_market1, price_market2) ==
    [total_expected_profit |-> 0, expected_roi |-> 0, total_stake |-> 0,
     market1_ev |-> 0, market2_ev |-> 0,
     scenario_probabilities |-> Table(0, 0, 0, 0),
     scenario_profits |-> Table(0, 0, 0, 0),
     best_case_profit |-> 0, worst_case_profit |-> 0,
     signed_correlation |-> 0,
     true_prob_market1 |-> true_prob_market1,
     true_prob_market2 |-> true_prob_market2,
     price_market1 |-> price_market1, price_market2 |-> price_market2]

Direction(position_market1, position_market2) ==
    IF position_market1 # "AVOID" /\ position_market2 # "AVOID"
    THEN (IF position_market1 = position_market2 THEN 1 ELSE -1)
    ELSE 0

MarketEv(position, true_prob, price) ==
    IF position = "YES" THEN true_prob - price
    ELSE IF position = "NO" THEN price - true_prob
    ELSE 0

\* the strategy text up to its numbers: the positions it names
StrategyParts(position_market1, position_market2) ==
    (IF position_market1 # "AVOID" THEN <<position_market1 \o " on Market 1">> ELSE <<>>)
    \o (IF position_market2 # "AVOID" THEN <<position_market2 \o " on Market 2">> ELSE <<>>)

\* the result of the full calculation
Computed(correlation, position_market1, position_market2, true_prob_market1, true_prob_market2, price_market1, price_market2) ==
    LET total_stake == PositionCost(position_market1, price_market1)
                       + PositionCost(position_market2, price_market2)
        signed_corr == Max(-MaxRho, Min(MaxRho,
                           correlation * Direction(position_market1, position_market2)))
        joint_probabilities ==
            JointProbabilities(true_prob_market1, true_prob_market2, signed_corr)
        scenario_profits ==
            Table(PositionProfit(position_market1, price_market1, TRUE)
                  + PositionProfit(position_market2, price_market2, TRUE),
                  PositionProfit(position_market1, price_market1, TRUE)
                  + PositionProfit(position_market2, price_market2, FALSE),
                  PositionProfit(position_market1, price_market1, FALSE)
                  + PositionProfit(position_market2, price_market2, TRUE),
                  PositionProfit(position_market1, price_market1, FALSE)
                  + PositionProfit(position_market2, price_market2, FALSE))
        expected_profit ==
            Total([k \in Scenarios |-> scenario_profits[k] * joint_probabilities[k]])
        best_case_profit ==
            CHOOSE x \in Range(scenario_profits) : \A y \in Range(scenario_profits) : x >= y
        worst_case_profit ==
            CHOOSE x \in Range(scenario_profits) : \A y \in Range(scenario_profits) : x <= y
        expected_roi ==
            IF total_stake # 0 THEN (expected_profit * Unit) \div total_stake ELSE 0
        strategy_parts == StrategyParts(position_market1, position_market2)
    IN  <<[total_expected_profit |-> expected_profit, expected_roi |-> expected_roi,
           total_stake |-> total_stake,
           market1_ev |-> MarketEv(position_market1, true_prob_market1, price_market1),
           market2_ev |-> MarketEv(position_market2, true_prob_market2, price_market2),
           scenario_probabilities |-> joint_probabilities,
           scenario_profits |-> scenario_profits,
           best_case_profit |-> best_case_profit,
           worst_case_profit |-> worst_case_profit,
           signed_correlation |-> signed_corr,
           true_prob_market1 |-> true_prob_market1,
           true_prob_market2 |-> true_prob_market2,
           price_market1 |-> price_market1, price_market2 |-> price_market2,
           position_market1 |-> position_market1,
           position_market2 |-> position_market2],
          IF strategy_parts = <<>> THEN <<HoldCash>> ELSE strategy_parts>>

\* mutant: no short-circuit when nothing is staked
CalculateExpectedValuesInFull(market1, market2, correlation, recommended_position_market1, recommended_position_market2, estimated_prob_market1, estimated_prob_market2) ==
    LET price_market1 == PriceOf(market1)
        price_market2 == PriceOf(market2)
        true_prob_market1 == Clamp(SafeFloat(estimated_prob_market1, price_market1), 0, Unit)
        true_prob_market2 == Clamp(SafeFloat(estimated_prob_market2, price_market2), 0, Unit)
        position_market1 == PositionOf(recommended_position_market1)
        position_market2 == PositionOf(recommended_position_market2)
    IN  Computed(correlation, position_market1, position_market2,
                 true_prob_market1, true_prob_market2, price_market1, price_market2)

\* _calculate_expected_values: the pair (expected_values, strategy)
CalculateExpectedValues(market1, market2, correlation, recommended_position_market1, recommended_position_market2, estimated_prob_market1, estimated_prob_market2) ==
    LET price_market1 == PriceOf(market1)
        price_market2 == PriceOf(market2)
        true_prob_market1 == Clamp(SafeFloat(estimated_prob_market1, price_market1), 0, Unit)
        true_prob_market2 == Clamp(SafeFloat(estimated_prob_market2, price_market2), 0, Unit)
        position_market1 == PositionOf(recommended_position_market1)
        position_market2 == PositionOf(recommended_position_market2)
        total_stake == PositionCost(position_market1, price_market1)
                       + PositionCost(position_market2, price_market2)
    IN  IF total_stake = 0
        THEN <<ZeroStake(true_prob_market1, true_prob_market2,
                         price_market1, price_market2),
               <<NoActionableStrategy>>>>
        ELSE Computed(correlation, position_market1, position_market2,
                      true_prob_market1, true_prob_market2, price_market1, price_market2)

\* ------------------------------------------------------ solver: the calls
\* outcome_prices of the two markets: none, unparseable, and prices from 0
\* to above 1
Prices1 == {<<>>, <<"n/a">>, <<"0", "1">>, <<"0.4", "0.6">>, <<"1.5">>}
Prices2 == {<<"0.6", "0.4">>, <<"0", "1">>, <<"1", "0">>}
PricedMarket(outcome_prices) == [outcome_prices |-> outcome_prices] @@ QuietMarket

\* the recommendations: missing, the three positions, lower case, unknown
Positions1 == {None, <<"YES">>, <<"NO">>, <<"AVOID">>, <<"yes">>, <<"HOLD">>}
Positions2 == {None, <<"YES">>, <<"NO">>, <<"AVOID">>}
\* the estimates: missing or in [0, 1]
Estimates1 == {None, <<0>>, <<55>>, <<Unit>>}
Estimates2 == {None, <<61>>, <<Unit>>}
Correlations == {0, 8 * 10, Unit}

\* the arguments of a call that has not returned yet
Pending(a) == Call("_calculate_expected_values", a, <<>>, 0)

CalculateExpectedValuesCall ==
    /\ last.op = "_calculate_expected_values" /\ last.result = <<>>
    /\ \E done \in {CalculateExpectedValues(markets[1], markets[2], last.args[1],
                                            last.args[2], last.args[3],
                                            last.args[4], last.args[5])} :
        last' = [last EXCEPT !.result = done]
    /\ UNCHANGED <<inputVars, store, run>>

NextSolver == CalculateExpectedValuesCall

\* one call of the solver for markets 1 and 2, with any arguments
InitSolver ==
    /\ markets \in {[m \in Markets |-> IF m = 1 THEN PricedMarket(first)
                                      ELSE IF m = 2 THEN PricedMarket(second)
                                      ELSE QuietMarket] :
                        first \in Prices1, second \in Prices2}
    /\ last \in {Pending(<<correlation, position1, position2, estimate1, estimate2>>) :
                    correlation \in Correlations,
                    position1 \in Positions1, position2 \in Positions2,
                    estimate1 \in Estimates1, estimate2 \in Estimates2}
    /\ emb = AllSimilar /\ qerr = NoLoss /\ iterOrder = Ascending
    /\ lostPage = {} /\ simFault = {} /\ relFault = NoFault
    /\ args = DefaultArgs
    /\ store = {}
    /\ run = NoRuns
    /\ vs = NewVectorService
    /\ ai = NoQuery

SpecSolver == InitSolver /\ [][NextSolver]_vars

\* the call has returned
Returned == last.op = "_calculate_expected_values" /\ last.result # <<>>
Correlation == last.args[1]
ExpectedValues == last.result[1]
Strategy == last.result[2]
\* the result carries a computed joint table
HasTable == Returned /\ "position_market1" \in DOMAIN ExpectedValues
JointTable == ExpectedValues.scenario_probabilities
Position1 == PositionOf(last.args[2])
Position2 == PositionOf(last.args[3])

\* ------------------------------------------------------------------ C14
\* the open interval (0, 1) of the grid
Inside(prob) == prob > 0 /\ prob < Unit

\* C14: for marginals in (0, 1) and rho in [-0.95, 0.95] the four joint
\* probabilities of _joint_probabilities are each >= 0 and sum to 1.
Thm_C14 ==
    /\ HasTable
    /\ Inside(ExpectedValues.true_prob_market1)
    /\ Inside(ExpectedValues.true_prob_market2)
    /\ ExpectedValues.signed_correlation \in -MaxRho..MaxRho
    => /\ \A k \in Scenarios : JointTable[k] >= 0
       /\ Total(JointTable) = Whole

\* opposite positions at full correlation: rho is -0.95 and p11 meets its
\* lower bound
Wit_C14 ==
    /\ HasTable
    /\ ExpectedValues.true_prob_market1 = 55
    /\ ExpectedValues.true_prob_market2 = 61
    /\ ExpectedValues.signed_correlation = -MaxRho
    /\ JointTable.both_yes = 1600
    /\ JointTable.both_no = 0

\* ------------------------------------------------------------------ C15
\* C15: every result the solver returns, for every combination of
\* positions, carries a scenario probability table whose four entries lie
\* in [0, 1] and sum to 1.
Claim_C15 ==
    Returned =>
        /\ \A k \in Scenarios : JointTable[k] >= 0 /\ JointTable[k] <= Whole
        /\ Total(JointTable) = Whole

\* ------------------------------------------------------------------ C16
\* C16: in every result with a computed joint table the two entries of
\* market 1's YES outcome add up to the echoed true_prob_market1 and the
\* two of market 2's YES outcome to the echoed true_prob_market2, for all
\* true probabilities in [0, 1].
Claim_C16 ==
    HasTable =>
        /\ JointTable.both_yes + JointTable.market1_yes_market2_no
             = ExpectedValues.true_prob_market1 * Unit
        /\ JointTable.both_yes + JointTable.market1_no_market2_yes
             = ExpectedValues.true_prob_market2 * Unit

\* ------------------------------------------------------------------ C17
BothAvoid == Position1 = "AVOID" /\ Position2 = "AVOID"

\* C17: if both positions are AVOID, missing and unrecognised labels
\* counting as AVOID, the solver returns total_expected_profit 0,
\* expected_roi 0 and the strategy text of no actionable strategy.
Thm_C17 ==
    Returned /\ BothAvoid =>
        /\ ExpectedValues.total_expected_profit = 0
        /\ ExpectedValues.expected_roi = 0
        /\ Strategy = <<NoActionableStrategy>>

\* an unrecognised label for market 1, none for market 2, and an estimate
\* away from the price
Wit_C17 ==
    /\ Returned
    /\ last.args[2] = <<"HOLD">> /\ last.args[3] = None
    /\ ExpectedValues.true_prob_market1 # ExpectedValues.price_market1
    /\ ExpectedValues.total_expected_profit = 0
    /\ Strategy = <<NoActionableStrategy>>

\* ------------------------------------------------------------------ C18
\* C18: the solver takes the zero-stake short-circuit if and only if both
\* positions are AVOID; with a YES or NO position on either market, at any
\* price in [0, 1], the result has a computed joint table and echoes the
\* positions.
Claim_C18 ==
    Returned =>
        /\ (ExpectedValues = ZeroStake(ExpectedValues.true_prob_market1,
                                       ExpectedValues.true_prob_market2,
                                       ExpectedValues.price_market1,
                                       ExpectedValues.price_market2)
            /\ Strategy = <<NoActionableStrategy>>) <=> BothAvoid
        /\ ~BothAvoid =>
            /\ HasTable
            /\ ExpectedValues.position_market1 = Position1
            /\ ExpectedValues.position_market2 = Position2

\* ------------------------------------------------------------------ C19
ClaimedDirection ==
    CASE Position1 # "AVOID" /\ Position2 # "AVOID" /\ Position1 = Position2 -> 1
      [] Position1 # "AVOID" /\ Position2 # "AVOID" /\ Position1 # Position2 -> -1
      [] OTHER -> 0

\* C19: the signed correlation the solver reports is
\* clamp(correlation * direction, -0.95, 0.95), the direction being +1 for
\* two equal non-AVOID positions, -1 for two different ones and 0 when
\* exactly one position is AVOID.
Claim_C19 ==
    Returned /\ ~BothAvoid =>
        ExpectedValues.signed_correlation
            = Clamp(Correlation * ClaimedDirection, -MaxRho, MaxRho)

\* ------------------------------------------------------------------ C20
\* the edge of an active position, on the echoed estimate and price
Edge(position, true_prob, price) ==
    IF position = "YES" THEN true_prob - price ELSE price - true_prob
Edges ==
    (IF Position1 # "AVOID"
     THEN {Edge(Position1, ExpectedValues.true_prob_market1, ExpectedValues.price_market1)}
     ELSE {})
    \cup (IF Position2 # "AVOID"
          THEN {Edge(Position2, ExpectedValues.true_prob_market2, ExpectedValues.price_market2)}
          ELSE {})

\* C20: when every active position has a non-negative edge and at least
\* one edge is strictly positive, total_expected_profit is strictly
\* positive, for every correlation in [0, 1].
Claim_C20 ==
    /\ Returned
    /\ \A e \in Edges : e >= 0
    /\ \E e \in Edges : e > 0
    => ExpectedValues.total_expected_profit > 0

\* ------------------------------------------------------------------ C21
\* the price is missing or its text is not a number
NoPrice(market) ==
    market.outcome_prices = <<>> \/ market.outcome_prices[1] \notin DOMAIN Floats
\* the label is missing or not one of YES, NO, AVOID in any case
NoPosition(label) == label = None \/ label[1] \notin {"YES", "NO", "AVOID", "yes"}

\* C21: with partial data the solver returns a result: price 0.5 for a
\* missing or unparseable price, the price for a missing estimate, AVOID for
\* a missing or unrecognised position.
Thm_C21 ==
    Returned =>
        /\ NoPrice(markets[1]) => ExpectedValues.price_market1 = Unit \div 2
        /\ NoPrice(markets[2]) => ExpectedValues.price_market2 = Unit \div 2
        /\ last.args[4] = None =>
              ExpectedValues.true_prob_market1 = ExpectedValues.price_market1
        /\ last.args[5] = None =>
              ExpectedValues.true_prob_market2 = ExpectedValues.price_market2
        /\ HasTable /\ NoPosition(last.args[2]) =>
              ExpectedValues.position_market1 = "AVOID"
        /\ HasTable /\ NoPosition(last.args[3]) =>
              ExpectedValues.position_market2 = "AVOID"
        /\ NoPosition(last.args[2]) /\ NoPosition(last.args[3]) =>
              Strategy = <<NoActionableStrategy>>

\* an unparseable price, no estimate and an unrecognised label for market 1,
\* a YES position on market 2
Wit_C21 ==
    /\ HasTable
    /\ markets[1].outcome_prices = <<"n/a">>
    /\ last.args[2] = <<"HOLD">> /\ last.args[4] = None
    /\ ExpectedValues.price_market1 = 50
    /\ ExpectedValues.true_prob_market1 = 50
    /\ ExpectedValues.position_market1 = "AVOID"
    /\ ExpectedValues.position_market2 = "YES"

\* ------------------------------------------------------------------ C30
\* C30: in every result with a computed joint table and true
\* probabilities in [eps, 1 - eps], total_expected_profit is
\* market1_ev + market2_ev and the ROI that sum over the stake, whatever
\* the positions and the correlation.
Thm_C30 ==
    /\ HasTable
    /\ ExpectedValues.true_prob_market1 \in Eps..(Unit - Eps)
    /\ ExpectedValues.true_prob_market2 \in Eps..(Unit - Eps)
    => /\ ExpectedValues.total_expected_profit
            = (ExpectedValues.market1_ev + ExpectedValues.market2_ev) * Whole
       /\ ExpectedValues.expected_roi
            = ((ExpectedValues.market1_ev + ExpectedValues.market2_ev) * Whole * Unit)
              \div ExpectedValues.total_stake

\* YES at 0.40 with estimate 0.55, NO at 0.60 with estimate 0.61, and a
\* correlation that moves both_yes away from the independent product
Wit_C30 ==
    /\ HasTable
    /\ ExpectedValues.position_market1 = "YES"
    /\ ExpectedValues.position_market2 = "NO"
    /\ ExpectedValues.signed_correlation = -(8 * 10)
    /\ ExpectedValues.market1_ev = 15 /\ ExpectedValues.market2_ev = -1
    /\ JointTable.both_yes < 55 * 61
    /\ ExpectedValues.total_expected_profit = 14 * Whole

\* ------------------------------------------------------------------ C27
\* the batch of CreateRelationsBatchCall has two relations; the second has
\* similarity 0.7, no correlation and pressure 0.36
SecondWritten ==
    \E row \in store :
        row.similarity = 7 * 10 /\ row.correlation = 0 /\ row.pressure = 36

\* C27: create_relations_batch does not raise when upserts fail: it returns
\* created + failed == total == len(relations), and a relation that fails
\* does not keep the later relations from being written.
Thm_C27 ==
    last.op = "create_relations_batch" =>
        /\ last.result[1] + last.result[2] = last.result[3]
        /\ last.result[3] = 2
        /\ last.result[2] = Cardinality(last.args[1] \cap 1..2)
        /\ (1 \in last.args[1] /\ 2 \notin last.args[1]) => SecondWritten

\* the first relation failed and the second was written
Wit_C27 ==
    /\ last.op = "create_relations_batch"
    /\ last.args[1] = {1}
    /\ last.result = <<1, 1, 2>>
    /\ SecondWritten

\* ===================================================== the vector service
\* The rows get_all_embeddings returns at most: 1000 in the program, scaled
\* here so that the store can hold more embeddings than that.
MaxEmbeddings == 2

\* get_all_embeddings: select('*').limit(limit), without an order: any
\* limit rows of the table, all of them when there are no more
GetAllEmbeddings(limit) ==
    {page \in SUBSET EmbeddingMarketIds :
        Cardinality(page) = Min(limit, Cardinality(EmbeddingMarketIds))}

\* a comparison of floats: false when one of them is NaN
Geq(x, y) == x # NaN /\ y # NaN /\ x >= y

\* find_similar_markets over the rows get_all_embeddings returned; the sort
\* leaves NaN scores in the order of the rows
FindSimilarMarketsIn(all_embeddings, query_embedding, limit) ==
    LET scored == {m \in all_embeddings : Norm(emb[m]) # 0}
        similarities == [m \in scored |-> CosineSimilarity(query_embedding, emb[m])]
    IN  Truncate(SortDescending(scored, similarities), limit)

\* find_similar_to_market, for a market with an embedding
FindSimilarToMarketIn(all_embeddings, market_id, limit) ==
    Truncate(SelectSeq(FindSimilarMarketsIn(all_embeddings, emb[market_id], limit + 1),
                       LAMBDA c : c[1] # market_id),
             limit)

\* find_markets_in_proximity over the rows get_all_embeddings returned
FindMarketsInProximity(all_embeddings, query_embedding, threshold) ==
    LET scored == {m \in all_embeddings : Norm(emb[m]) # 0}
        similarities == [m \in scored |-> CosineSimilarity(query_embedding, emb[m])]
        results == {m \in scored : Geq(similarities[m], threshold)}
    IN  SortDescending(results, similarities)

\* the thresholds a caller passes: zero and the default
Thresholds == {0, MinSimilarity}

FindSimilarMarketsCall ==
    /\ \E query_embedding \in Vectors, limit \in 1..MaxLimit :
        \E all_embeddings \in GetAllEmbeddings(MaxEmbeddings) :
            last' = Call("find_similar_markets", <<query_embedding, limit>>,
                         FindSimilarMarketsIn(all_embeddings, query_embedding, limit), 0)
    /\ UNCHANGED <<inputVars, store, run>>

FindSimilarToMarketCall ==
    /\ \E market_id \in Markets, limit \in 1..MaxLimit :
        \E all_embeddings \in GetAllEmbeddings(MaxEmbeddings) :
            last' = IF emb[market_id] = NoEmb
                    THEN Call("find_similar_to_market", <<market_id, limit>>, <<>>, 1)
                    ELSE Call("find_similar_to_market", <<market_id, limit>>,
                              FindSimilarToMarketIn(all_embeddings, market_id, limit), 0)
    /\ UNCHANGED <<inputVars, store, run>>

FindMarketsInProximityCall ==
    /\ \E query_embedding \in Vectors, threshold \in Thresholds :
        \E all_embeddings \in GetAllEmbeddings(MaxEmbeddings) :
            last' = Call("find_markets_in_proximity", <<query_embedding, threshold>>,
                         FindMarketsInProximity(all_embeddings, query_embedding,
                                                threshold), 0)
    /\ UNCHANGED <<inputVars, store, run>>

NextVector ==
    \/ FindSimilarMarketsCall
    \/ FindSimilarToMarketCall
    \/ FindMarketsInProximityCall

\* the vector service over any store of embeddings
InitVector ==
    /\ emb \in [Markets -> Vectors \cup {NoEmb}]
    /\ markets = AllQuiet /\ qerr = NoLoss /\ iterOrder = Ascending
    /\ lostPage = {} /\ simFault = {} /\ relFault = NoFault
    /\ args = DefaultArgs
    /\ store = {}
    /\ run = NoRuns
    /\ last = NoCall
    /\ vs = NewVectorService
    /\ ai = NoQuery

SpecVector == InitVector /\ [][NextVector]_vars

\* ------------------------------------------------------------------ C22
\* the scores of a result do not increase, as floats compare
Ordered(result) == \A i \in 1..(Len(result) - 1) : Geq(result[i][2], result[i + 1][2])

\* C22: find_similar_markets returns (id, score) pairs in non-increasing
\* score order, limit of them at most; find_similar_to_market returns at
\* most limit such pairs, none of them the market itself.
Claim_C22 ==
    /\ last.op = "find_similar_markets" =>
          Len(last.result) <= last.args[2] /\ Ordered(last.result)
    /\ last.op = "find_similar_to_market" /\ last.failed = 0 =>
          /\ Len(last.result) <= last.args[2]
          /\ Ordered(last.result)
          /\ \A i \in DOMAIN last.result : last.result[i][1] # last.args[1]

\* ------------------------------------------------------------------ C23
\* the markets with a stored non-zero embedding at least threshold-similar
\* to the query
InProximity(query_embedding, threshold) ==
    {m \in EmbeddingMarketIds :
        Norm(emb[m]) # 0 /\ Geq(CosineSimilarity(query_embedding, emb[m]), threshold)}

\* C23: find_markets_in_proximity returns every market with a stored
\* non-zero embedding whose cosine similarity to the query is >= threshold,
\* and no other, however many embeddings the store holds.
Claim_C23 ==
    last.op = "find_markets_in_proximity" =>
        {last.result[i][1] : i \in DOMAIN last.result}
            = InProximity(last.args[1], last.args[2])

\* ------------------------------------------------------------------ C24
\* one full-corpus run over embeddings some of which are zero vectors, with
\* the default similarity threshold and with threshold 0
InitDegenerate ==
    /\ emb \in [Markets -> {Zero, E1}]
    /\ markets = AllQuiet /\ qerr = NoLoss
    /\ iterOrder \in Orders
    /\ lostPage = {} /\ simFault = {} /\ relFault = NoFault
    /\ args \in {[DefaultArgs EXCEPT !.similarity_threshold = t] : t \in Thresholds}
    /\ store = {}
    /\ run = OneRun
    /\ last = NoCall
    /\ vs = NewVectorService
    /\ ai = NoQuery

SpecDegenerate == InitDegenerate /\ [][Next]_vars

ZeroNorm(m) == emb[m] # NoEmb /\ Norm(emb[m]) = 0

\* C24: a market whose stored embedding has zero norm appears neither in
\* the result of a similarity query nor in a relation the full-corpus run
\* stages, whatever the threshold.
Claim_C24 ==
    /\ last.op \in {"find_similar_markets", "find_similar_to_market",
                    "find_markets_in_proximity"} =>
          \A i \in DOMAIN last.result : ~ZeroNorm(last.result[i][1])
    /\ \A r \in RunIds : \A i \in DOMAIN Staged(r) :
          ~ZeroNorm(Staged(r)[i].market_id_1) /\ ~ZeroNorm(Staged(r)[i].market_id_2)


\* ============================================================ embeddings
\* app/services/vector_service.py: BurstRateLimiter and
\* VectorService.batch_create_embeddings

WaitSeconds == 65
\* embedding_chunk_size, scaled to the size of the model
EmbeddingChunkSize == 1
\* the batch_create_embeddings calls made through one vector service
MaxCalls == 2

\* how long one batch takes: shorter and longer than the burst window
Durations == {1, WaitSeconds + 1}

\* the vector the provider returns for the text of a market
TextEmbedding(market_id) == IF market_id % 2 = 1 THEN E1 ELSE E2

\* BurstRateLimiter.wait_for_next_burst: the time at which it returns
WaitForNextBurst(burst_start_time, now) ==
    IF burst_start_time = None THEN now
    ELSE LET elapsed == now - burst_start_time[1]
             wait_time == WaitSeconds - elapsed
         IN IF wait_time > 0 THEN now + wait_time ELSE now

\* BurstRateLimiter.start_burst at time now
StartBurst(service, now) ==
    [service EXCEPT !.previous_burst_start = service.burst_start_time,
                    !.burst_start_time = <<now>>]

\* the embeddings list of one batch: the provider's vectors, and zero
\* vectors for the texts of the chunks whose provider call raised
ChunkOf(idx) == (idx - 1) \div EmbeddingChunkSize
Chunks(n) == {ChunkOf(idx) : idx \in 1..n}
EmbeddingsOf(batch_ids, failing) ==
    [idx \in 1..Len(batch_ids) |->
        IF ChunkOf(idx) \in failing THEN Zero ELSE TextEmbedding(batch_ids[idx])]
ChunkMarkets(batch_ids, failing) ==
    {batch_ids[idx] : idx \in {k \in 1..Len(batch_ids) : ChunkOf(k) \in failing}}

\* the lists of market ids a caller passes: of the first MaxIds markets
MaxIds == 2
IdLists ==
    {ids \in UNION {[1..n -> 1..MaxIds] : n \in 1..MaxIds} :
        \A a, b \in DOMAIN ids : a < b => ids[a] < ids[b]}

BatchCreateEmbeddingsCall ==
    /\ vs.pc = "idle" /\ vs.calls < MaxCalls
    /\ \E market_ids \in IdLists, batch_size \in 1..MaxBatchSize :
        vs' = [vs EXCEPT !.pc = "batch", !.calls = @ + 1,
                         !.market_ids = market_ids,
                         !.batch_size = batch_size, !.i = 0,
                         !.created = 0, !.failed = 0,
                         !.lost = {}]
    /\ UNCHANGED <<markets, emb, lostPage, qerr, simFault, relFault, iterOrder, args>>
    /\ UNCHANGED <<store, run, last, ai>>

\* one iteration of the loop over the batches of market_ids
BatchCreateEmbeddingsBatch ==
    /\ vs.pc = "batch" /\ vs.i < Len(vs.market_ids)
    /\ LET batch_ids == SubSeq(vs.market_ids, vs.i + 1,
                               Min(vs.i + vs.batch_size, Len(vs.market_ids)))
           ready == IF vs.i > 0 THEN WaitForNextBurst(vs.burst_start_time, vs.now)
                    ELSE vs.now
           next == [vs EXCEPT !.i = @ + vs.batch_size]
       IN \E fetch \in {"found", "none", "raises"}, duration \in Durations :
           IF fetch = "raises"
           THEN /\ vs' = [next EXCEPT !.now = ready + duration,
                                      !.failed = @ + Len(batch_ids)]
                /\ emb' = emb
           ELSE IF fetch = "none"
           THEN /\ vs' = [next EXCEPT !.now = ready + duration]
                /\ emb' = emb
           ELSE \E failing \in SUBSET Chunks(Len(batch_ids)),
                   stored \in SUBSET Range(batch_ids), store_raises \in BOOLEAN :
               LET embeddings == EmbeddingsOf(batch_ids, failing)
                   burst == StartBurst(next, ready)
                   lost == vs.lost \cup ChunkMarkets(batch_ids, failing)
               IN IF store_raises
                  THEN /\ stored = {}
                       /\ vs' = [burst EXCEPT !.now = ready + duration,
                                              !.failed = @ + Len(batch_ids),
                                              !.lost = lost]
                       /\ emb' = emb
                  ELSE /\ vs' = [burst EXCEPT
                                    !.now = ready + duration,
                                    !.created = @ + Cardinality(stored),
                                    !.failed = @ + Len(batch_ids) - Cardinality(stored),
                                    !.lost = lost]
                       /\ emb' = [m \in Markets |->
                                    IF m \in stored
                                    THEN embeddings[CHOOSE idx \in DOMAIN batch_ids :
                                                        batch_ids[idx] = m]
                                    ELSE emb[m]]
    /\ UNCHANGED <<markets, lostPage, qerr, simFault, relFault, iterOrder, args>>
    /\ UNCHANGED <<store, run, last>>
    /\ ai' = ai

BatchCreateEmbeddingsReturn ==
    /\ vs.pc = "batch" /\ vs.i >= Len(vs.market_ids)
    /\ vs' = [NewVectorService EXCEPT
                 !.burst_start_time = vs.burst_start_time,
                 !.previous_burst_start = vs.previous_burst_start,
                 !.now = vs.now, !.calls = vs.calls]
    /\ last' = Call("batch_create_embeddings", <<>>,
                    [created |-> vs.created, failed |-> vs.failed,
                     total |-> Len(vs.market_ids)], 0)
    /\ UNCHANGED <<markets, emb, lostPage, qerr, simFault, relFault, iterOrder, args>>
    /\ UNCHANGED <<store, run, ai>>

NextEmbeddings ==
    \/ BatchCreateEmbeddingsCall
    \/ BatchCreateEmbeddingsBatch
    \/ BatchCreateEmbeddingsReturn

\* one vector service over a store that holds no embedding yet
InitEmbeddings ==
    /\ emb = [m \in Markets |-> NoEmb]
    /\ markets = AllQuiet /\ qerr = NoLoss /\ iterOrder = Ascending
    /\ lostPage = {} /\ simFault = {} /\ relFault = NoFault
    /\ args = DefaultArgs
    /\ store = {}
    /\ run = NoRuns
    /\ last = NoCall
    /\ vs = NewVectorService
    /\ ai = NoQuery

SpecEmbeddings == InitEmbeddings /\ [][NextEmbeddings]_vars

\* ------------------------------------------------------------------ C26
\* C26: when the provider call fails for a chunk of texts, no embedding is
\* stored for the markets of that chunk, they are counted as failed, and
\* no all-zero vector is ever written to the embedding store.
Claim_C26 ==
    /\ \A m \in Markets : emb[m] # Zero
    /\ vs.failed >= Cardinality(vs.lost)

\* ------------------------------------------------------------------ C29
\* C29: of every two consecutive bursts started through one vector
\* service, in one batch_create_embeddings call or in successive calls, the
\* later starts no sooner than wait_seconds after the earlier started.
Claim_C29 ==
    vs.previous_burst_start # None =>
        vs.burst_start_time[1] - vs.previous_burst_start[1] >= WaitSeconds


\* =========================================================== AI analysis
\* app/services/relation_service.py: get_related_markets and
\* get_related_markets_enriched with include_ai_analysis=True;
\* app/utils/market_analysis.py: analyze_market_correlation

ValidModels ==
    {"gemini-flash", "gemini-pro", "gemini-2.0-flash", "gemini-2.0-flash-exp",
     "gemini-2.0-flash-thinking-exp", "gemini-1.5-flash", "gemini-1.5-flash-002",
     "gemini-1.5-flash-8b"}

\* the model identifiers a caller passes: the default and an unsupported one
Models == {"gemini-flash", "gpt-4"}

\* what analyze_market_correlation returns
Analyses ==
    {[correlation_score |-> 8 * 10, explanation |-> "explanation",
      investment_score |-> score, investment_rationale |-> "rationale",
      risk_level |-> "low"] : score \in {2 * 10, 8 * 10}}

\* the results list of get_related_markets before the analysis
ResultsLoop(basic_results, limit, min_volume) ==
    IF min_volume = None THEN Truncate(basic_results, limit)
    ELSE VolumeFilterFrom(basic_results, 1, limit, min_volume[1], <<>>)

\* the rows either query hands to its analysis tasks
AnalysisRows(op, response, market_id, limit, min_volume) ==
    IF op = "get_related_markets"
    THEN ResultsLoop(BasicResults(response, market_id), limit, min_volume)
    ELSE LET basic_results == GetRelatedMarkets(response, market_id, limit, min_volume)
         IN  [k \in 1..Len(basic_results) |->
                 <<basic_results[k][1], basic_results[k][2], basic_results[k][3],
                   basic_results[k][4]>>]

\* the tuple analyze_one / analyze_one_market returns
AnalyzedRow(op, task) ==
    LET fields == IF task.analysis = None THEN <<None, None, None, None, None>>
                  ELSE <<<<task.analysis[1].correlation_score>>,
                         <<task.analysis[1].explanation>>,
                         <<task.analysis[1].investment_score>>,
                         <<task.analysis[1].investment_rationale>>,
                         <<task.analysis[1].risk_level>>>>
    IN  IF op = "get_related_markets" THEN task.row \o fields
        ELSE task.row \o <<markets[task.row[1]]>> \o fields

\* the sort key (-(investment score, None = -1), -pressure), compared
InvestmentOf(x, score_at) == IF x[score_at] = None THEN 0 - 1 ELSE x[score_at][1]
KeyLeq(x, y, score_at) ==
    \/ InvestmentOf(x, score_at) > InvestmentOf(y, score_at)
    \/ InvestmentOf(x, score_at) = InvestmentOf(y, score_at) /\ x[4] >= y[4]

\* results_with_ai.sort(key=...): ties stay in the order of the list
RECURSIVE SortByInvestmentFrom(_, _, _)
SortByInvestmentFrom(sorted, rest, score_at) ==
    IF rest = <<>> THEN sorted
    ELSE LET x == Head(rest)
             k == Cardinality({j \in 1..Len(sorted) : KeyLeq(sorted[j], x, score_at)})
         IN  SortByInvestmentFrom(SubSeq(sorted, 1, k) \o <<x>>
                                      \o SubSeq(sorted, k + 1, Len(sorted)),
                                  Tail(rest), score_at)

\* the analysis calls waiting for the provider
InFlight == Cardinality({k \in DOMAIN ai.tasks : ai.tasks[k].state = "calling"})

\* the query for the stored relations, and the list of analysis tasks
RelatedMarketsQuery ==
    /\ ai.pc = "called"
    /\ \E response \in Responses(store, ai.market_id, MinSimilarity, ai.limit) :
        LET results == AnalysisRows(ai.op, response, ai.market_id, ai.limit,
                                    ai.min_volume)
        IN  ai' = [ai EXCEPT !.pc = "gather",
                             !.tasks = [k \in 1..Len(results) |->
                                           [row |-> results[k], state |-> "ready",
                                            analysis |-> None]]]
    /\ UNCHANGED <<markets, emb, lostPage, qerr, simFault, relFault, iterOrder, args>>
    /\ UNCHANGED <<store, run, last, vs>>

\* a task runs up to the provider call of analyze_market_correlation; an
\* unsupported model raises before it, and the task catches the exception
AnalyzeOneCall ==
    /\ ai.pc = "gather"
    /\ \E k \in DOMAIN ai.tasks :
        /\ ai.tasks[k].state = "ready"
        /\ ai' = IF ai.ai_model \notin ValidModels
                 THEN [ai EXCEPT !.tasks[k].state = "done"]
                 ELSE [ai EXCEPT !.tasks[k].state = "calling", !.calls = @ + 1]
    /\ UNCHANGED <<markets, emb, lostPage, qerr, simFault, relFault, iterOrder, args>>
    /\ UNCHANGED <<store, run, last, vs>>

\* the provider answers a task, or its call raises and the task catches it
AnalyzeOneReturn ==
    /\ ai.pc = "gather"
    /\ \E k \in DOMAIN ai.tasks, answer \in {<<a>> : a \in Analyses} \cup {None} :
        /\ ai.tasks[k].state = "calling"
        /\ ai' = [ai EXCEPT !.tasks[k].state = "done", !.tasks[k].analysis = answer]
    /\ UNCHANGED <<markets, emb, lostPage, qerr, simFault, relFault, iterOrder, args>>
    /\ UNCHANGED <<store, run, last, vs>>

\* asyncio.gather has every task's tuple: sort and return
RelatedMarketsReturn ==
    /\ ai.pc = "gather"
    /\ \A k \in DOMAIN ai.tasks : ai.tasks[k].state = "done"
    /\ LET results_with_ai == [k \in DOMAIN ai.tasks |-> AnalyzedRow(ai.op, ai.tasks[k])]
           score_at == IF ai.op = "get_related_markets" THEN 7 ELSE 8
       IN  last' = Call(ai.op, <<ai.min_volume, ai.ai_model>>,
                        SortByInvestmentFrom(<<>>, results_with_ai, score_at), 0)
    /\ ai' = [ai EXCEPT !.pc = "returned"]
    /\ UNCHANGED <<markets, emb, lostPage, qerr, simFault, relFault, iterOrder, args>>
    /\ UNCHANGED <<store, run, vs>>

NextAnalysis ==
    \/ RelatedMarketsQuery
    \/ AnalyzeOneCall
    \/ AnalyzeOneReturn
    \/ RelatedMarketsReturn

\* a query with AI analysis for a market, over a table that holds two
\* relations of market 1
InitAnalysis ==
    /\ store \in {{CreateRelationData(1, 2, first.similarity, first.correlation,
                                      first.pressure),
                   CreateRelationData(1, NMarkets, second.similarity,
                                      second.correlation, second.pressure)} :
                     first \in Scores, second \in Scores}
    /\ ai \in {[NoQuery EXCEPT !.pc = "called", !.op = op, !.market_id = market_id,
                               !.limit = limit, !.min_volume = min_volume,
                               !.ai_model = ai_model] :
                  op \in {"get_related_markets", "get_related_markets_enriched"},
                  market_id \in Markets, limit \in 1..MaxLimit,
                  min_volume \in MinVolumes, ai_model \in Models}
    /\ emb = AllSimilar /\ qerr = NoLoss /\ markets = OneQuiet
    /\ iterOrder = Ascending
    /\ lostPage = {} /\ simFault = {} /\ relFault = NoFault
    /\ args = DefaultArgs
    /\ run = NoRuns
    /\ last = NoCall
    /\ vs = NewVectorService

SpecAnalysis == InitAnalysis /\ [][NextAnalysis]_vars

\* ------------------------------------------------------------------ C25
\* C25: with a model identifier outside the supported set no provider call
\* is made, and a query with AI analysis that had rows to analyse reports
\* the error to its caller instead of returning rows with empty analysis
\* fields.
Claim_C25 ==
    ai.pc # "idle" /\ ai.ai_model \notin ValidModels =>
        /\ ai.calls = 0
        /\ ai.pc = "returned" /\ ai.tasks # <<>> => last.failed = 1

\* ------------------------------------------------------------------ C28
\* a concurrency limit below the number of rows one query may return
ConcurrencyLimit == MaxLimit - 1

\* C28: during a relation query with AI analysis no more analysis calls
\* than the concurrency limit are in flight, however many related markets
\* the query returns.
Claim_C28 == InFlight <= ConcurrencyLimit

====
